---- MODULE Spec2Model ----
(***************************************************************************)
(* Model of the stoppablecontainer operator: the Workload controller       *)
(* (StoppableContainerReconciler), the Instance controller                 *)
(* (StoppableContainerInstanceReconciler), the pod builders' naming and    *)
(* metadata, and the API-server / kubelet environment they run against;    *)
(* and, on one node, the rendezvous between the Provider driver            *)
(* (cmd/provider) and the MountAgent (cmd/mount-helper) over the files of  *)
(* the work directory.                                                     *)
(***************************************************************************)
EXTENDS Integers, Sequences, FiniteSets, TLC

\* ---------------------------------------------------------------------
\* Bounds
\* ---------------------------------------------------------------------
\* number of times the user may create the Workload
MaxCreates == 1
\* number of times the user may flip Workload.spec.running
MaxToggles == 2
\* number of operations (creating a pod or an Instance, deleting a pod) other
\* API clients may perform
MaxForeign == 1
\* number of pods that may be in phase Failed at the same time
MaxFailed == 1
\* number of times the driver reads ready.json in one attempt before it gives
\* the attempt up (300 in the program)
MaxPolls == 2
\* number of times the kubelet starts the driver's container
MaxRuns == 2

\* Workload / Instance names and cluster nodes of the modelled cluster
Names == {"demo"}
Nodes == {"node-1", "node-2"}

\* ---------------------------------------------------------------------
\* Pod naming (PodBuilder and the Instance controller's lookups)
\* ---------------------------------------------------------------------
\* ProviderPodBuilder.Build: metadata.name
providerPodName(n) == n \o "-provider"

\* ConsumerPodBuilder.consumerPodName
consumerPodName(n) == n

\* Instance Reconcile: name used to Get the provider pod
ReconcileProviderKey(n) == n \o "-provider"

\* Instance Reconcile: name used to Get (and then delete / report) the consumer pod
ReconcileConsumerKey(n) == n \o "-consumer"

\* Instance handleDeletion: name used to Get and delete the consumer pod
DeletionConsumerKey(n) == n \o "-consumer"

\* Instance handleDeletion: name used to Get and delete the provider pod
DeletionProviderKey(n) == n \o "-provider"

PodNames ==
  UNION { {providerPodName(n), consumerPodName(n), ReconcileProviderKey(n),
           ReconcileConsumerKey(n), DeletionConsumerKey(n), DeletionProviderKey(n)} : n \in Names }

\* ---------------------------------------------------------------------
\* State
\* ---------------------------------------------------------------------
VARIABLES
  sc,       \* Workload objects (StoppableContainer), by name
  sci,      \* Instance objects (StoppableContainerInstance), by name
  pods,     \* Pod objects, by name
  nextUID,  \* next metadata.uid the API server hands out
  creates,  \* how many times the user created a Workload
  toggles,  \* how many times the user flipped spec.running
  foreign,  \* how many operations other API clients performed
  result,   \* what the last Reconcile of each controller returned, by name
  rejects,  \* roles of the pods whose Create the API server refuses
  cfg,      \* namespace, name and spec.hostPathPrefix of the Instance on the node
  dirs,     \* directories on the node's host filesystem
  files,    \* regular files on the node's host filesystem, by path
  mounts,   \* directories on the host where an overlay is mounted
  host,     \* the node's process table as far as the MountAgent reads it
  agent,    \* position of the MountAgent
  drv,      \* position and locals of the Provider driver
  call      \* a helper function of the node programs under test: input and outputs

\* the cluster (API server objects) and one node (files and processes)
clusterVars == <<sc, sci, pods, nextUID, creates, toggles, foreign, result, rejects>>

nodeVars == <<cfg, dirs, files, mounts, host, agent, drv, call>>

vars == <<sc, sci, pods, nextUID, creates, toggles, foreign, result, rejects, nodeVars>>

\* everything a Reconcile that only returns leaves as it is
apiVars == <<sc, sci, pods, nextUID, creates, toggles, foreign, rejects, nodeVars>>

\* object that is not stored in the API server
NoWorkload ==
  [exists |-> FALSE, uid |-> 0, running |-> FALSE, deleting |-> FALSE,
   finalizer |-> FALSE, phase |-> "", instanceName |-> "",
   providerPodName |-> "", consumerPodName |-> "", nodeName |-> "",
   readyStatus |-> "", readyReason |-> "", readyMessage |-> "",
   template |-> "", provider |-> "", hostPathPrefix |-> ""]

NoInstance ==
  [exists |-> FALSE, uid |-> 0, owner |-> 0, workloadName |-> "",
   running |-> FALSE, deleting |-> FALSE, finalizer |-> FALSE, phase |-> "",
   nodeName |-> "", providerPodName |-> "", providerPodUID |-> 0,
   consumerPodName |-> "", consumerPodUID |-> 0, message |-> "",
   template |-> "", provider |-> "", hostPathPrefix |-> ""]

NoPod ==
  [exists |-> FALSE, uid |-> 0, owner |-> 0, instance |-> "", role |-> "",
   nodeName |-> "", phase |-> "", ready |-> FALSE, terminating |-> FALSE,
   message |-> ""]

\* ---------------------------------------------------------------------
\* Paths and files of the rendezvous (paths are sequences of components)
\* ---------------------------------------------------------------------
\* MountAgent: where the host root is mounted in the agent's container
HostRootPath == <<"host">>

\* MountAgent: base of the work directories, as a host path
WorkBasePath == <<"var", "lib", "stoppablecontainer">>

\* MountAgent: file names
RequestFileName == "request.json"

ReadyFileName == "ready.json"

\* PodBuilder: default of spec.hostPathPrefix
DefaultHostPathPrefix == <<"var", "lib", "stoppablecontainer">>

\* Provider driver: where the hostPath volume is mounted, and file names
PropagatedPath == <<"propagated">>

RequestFile == "request.json"

ReadyFile == "ready.json"

RootfsDir == "rootfs"

ReadyMarker == "ready"

\* GetHostPath: filepath.Join(prefix, namespace, name), the default prefix
\* standing in for an empty one
GetHostPath(c) ==
  (IF c.hostPathPrefix = <<>> THEN DefaultHostPathPrefix ELSE c.hostPathPrefix)
    \o <<c.namespace, c.name>>

\* the host path behind a path in the agent's container (under /host)
AgentHostPath(p) == SubSeq(p, Len(HostRootPath) + 1, Len(p))

\* the host path behind a path in the driver's container (under /propagated):
\* the hostPath volume of the Provider pod is GetHostPath
DriverHostPath(c, p) == GetHostPath(c) \o SubSeq(p, Len(PropagatedPath) + 1, Len(p))

\* a directory and all its ancestors (MkdirAll, hostPath DirectoryOrCreate)
Ancestors(p) == {SubSeq(p, 1, k) : k \in 1..Len(p)}

\* content of a rendezvous file: MountRequest, MountResponse or the marker
FileContent(status, message, podUID) ==
  [status |-> status, message |-> message, podUID |-> podUID]

\* fs with file p written / removed
WriteFile(fs, p, c) == [q \in DOMAIN fs \cup {p} |-> IF q = p THEN c ELSE fs[q]]

RemoveFile(fs, p) == [q \in DOMAIN fs \ {p} |-> fs[q]]

\* Instance configurations a node is exercised with
HostPathPrefixes == {<<>>, <<"var", "lib">>, <<"data">>}

Namespaces == {"default", "stoppablecontainer"}

Configs ==
  [hostPathPrefix : HostPathPrefixes, namespace : Namespaces, name : Names]

\* metadata.uid of the Provider pod the driver runs in (POD_UID)
DriverPodUID == "uid-1"

\* which write of request.json a file goes back to: the run of the driver
\* and the attempt in it (no write at all: NoStamp)
NoStamp == [run |-> 0, attempt |-> 0]

\* the driver at the start of main; run counts the starts of the container,
\* written is the stamp of the request.json it wrote last
DriverStart ==
  [pc |-> "write", attempt |-> 1, polls |-> 0, lastError |-> "",
   outcomes |-> <<>>, exitCode |-> 0, run |-> 1, written |-> NoStamp]

\* the agent asleep between two passes of its loop. queue holds the entries
\* of the pass still to be examined, pass the entries the pass listed, done
\* those it called processRequest for, errs the errors mountProcDevSys
\* collected, reading the stamp of the request being processed, answered
\* the stamp of the request behind the ready.json it wrote last into the
\* driver's directory, and crashedOn the work directory whose request a
\* dead predecessor had mounted the overlay for and not answered
AgentIdle ==
  [pc |-> "idle", workDir |-> <<>>, queue |-> <<>>, pass |-> <<>>, done |-> <<>>,
   errs |-> {}, reading |-> NoStamp, answered |-> NoStamp, crashedOn |-> <<>>]

\* what Reconcile returns: ctrl.Result{}, ctrl.Result{Requeue: true},
\* ctrl.Result{RequeueAfter: s seconds}, and an error beside an empty Result
NoRequeue == [requeue |-> FALSE, after |-> 0, err |-> ""]

RequeueNow == [requeue |-> TRUE, after |-> 0, err |-> ""]

RequeueAfter(s) == [requeue |-> FALSE, after |-> s, err |-> ""]

ReturnError(e) == [requeue |-> FALSE, after |-> 0, err |-> e]

\* Reconcile of controller ctl returns r for the object named n
Return(n, ctl, r) == result' = [result EXCEPT ![n][ctl] = r]

\* the error the API server answers a refused pod Create with
CreateRejectedMessage == "pods is forbidden: violates PodSecurity"

\* no helper function is exercised
NoCall == [fn |-> "none"]

\* a node on which no Provider pod has been started
NodeIdle ==
  /\ cfg = [hostPathPrefix |-> <<>>, namespace |-> "default", name |-> "demo"]
  /\ dirs = {}
  /\ files = [q \in {} |-> FileContent("", "", "")]
  /\ mounts = {}
  /\ host = [container |-> "absent", mountCalls |-> {}]
  /\ agent = AgentIdle
  /\ drv = [DriverStart EXCEPT !.pc = "off"]
  /\ call = NoCall

ClusterInit ==
  /\ sc = [n \in Names |-> NoWorkload]
  /\ sci = [n \in Names |-> NoInstance]
  /\ pods = [p \in PodNames |-> NoPod]
  /\ nextUID = 1
  /\ creates = 0
  /\ toggles = 0
  /\ foreign = 0
  /\ result = [n \in Names |-> [workload |-> NoRequeue, instance |-> NoRequeue]]
  /\ rejects = {}

Init == ClusterInit /\ NodeIdle

\* ---------------------------------------------------------------------
\* Pod predicates of the Instance controller
\* ---------------------------------------------------------------------
isPodReady(pod) == pod.phase = "Running" /\ pod.ready

isPodFailed(pod) == pod.phase = "Failed"

\* getPodFailureReason: the pod's status message, "Unknown" when it has none
getPodFailureReason(pod) == IF pod.message # "" THEN pod.message ELSE "Unknown"

\* client.Delete on a pod: the API server sets deletionTimestamp, the
\* kubelet removes the object after the grace period
DeletePod(ps, p) == [ps EXCEPT ![p].terminating = TRUE]

\* ---------------------------------------------------------------------
\* User operations on the Workload (kubectl apply / patch / delete)
\* ---------------------------------------------------------------------
\* the fields of the Workload's spec that createInstance copies, as the
\* user first applies them and as a later edit sets them
CopiedFields == {"template", "provider", "hostPathPrefix"}

OriginalSpec == [template |-> "app:v1", provider |-> "default", hostPathPrefix |-> ""]

EditedSpec == [template |-> "app:v2", provider |-> "custom", hostPathPrefix |-> "/data"]

UserCreate(n, r) ==
  /\ ~sc[n].exists
  /\ creates < MaxCreates
  /\ sc' = [sc EXCEPT ![n] = [NoWorkload EXCEPT !.exists = TRUE, !.uid = nextUID,
                                               !.running = r,
                                               !.template = OriginalSpec.template,
                                               !.provider = OriginalSpec.provider,
                                               !.hostPathPrefix = OriginalSpec.hostPathPrefix]]
  /\ nextUID' = nextUID + 1
  /\ creates' = creates + 1
  /\ UNCHANGED <<sci, pods, toggles, foreign, result, rejects, nodeVars>>

UserSetRunning(n) ==
  /\ sc[n].exists
  /\ ~sc[n].deleting
  /\ toggles < MaxToggles
  /\ sc' = [sc EXCEPT ![n].running = ~sc[n].running]
  /\ toggles' = toggles + 1
  /\ UNCHANGED <<sci, pods, nextUID, creates, foreign, result, rejects, nodeVars>>

\* kubectl apply of a changed manifest: one of the copied fields is edited
UserEdit(n, f) ==
  /\ sc[n].exists
  /\ ~sc[n].deleting
  /\ sc[n][f] = OriginalSpec[f]
  /\ sc' = [sc EXCEPT ![n][f] = EditedSpec[f]]
  /\ UNCHANGED <<sci, pods, nextUID, creates, toggles, foreign, result, rejects, nodeVars>>

\* kubectl delete: with a finalizer the object only gets a deletionTimestamp
UserDelete(n) ==
  /\ sc[n].exists
  /\ ~sc[n].deleting
  /\ sc' = [sc EXCEPT ![n] = IF sc[n].finalizer
                                THEN [sc[n] EXCEPT !.deleting = TRUE]
                                ELSE NoWorkload]
  /\ UNCHANGED <<sci, pods, nextUID, creates, toggles, foreign, result, rejects, nodeVars>>

\* ---------------------------------------------------------------------
\* Workload controller (StoppableContainerReconciler)
\* ---------------------------------------------------------------------
\* variant of the phase switch that reports Running as soon as the Consumer
\* pod has been created
ProjectPhaseEager(p) ==
  CASE p \in {"Pending", "ProviderStarting"} -> "Pending"
    [] p = "ProviderReady" -> "ProviderReady"
    [] p \in {"ConsumerStarting", "Running"} -> "Running"
    [] p \in {"Stopping", "Stopped"} -> "Stopped"
    [] p = "Failed" -> "Failed"
    [] OTHER -> "Pending"

\* the phase switch of updateStatusFromInstance
ProjectPhase(p) ==
  CASE p \in {"Pending", "ProviderStarting"} -> "Pending"
    [] p \in {"ProviderReady", "ConsumerStarting"} -> "ProviderReady"
    [] p = "Running" -> "Running"
    [] p \in {"Stopping", "Stopped"} -> "Stopped"
    [] p = "Failed" -> "Failed"
    [] OTHER -> "Pending"

\* the Ready condition updateStatusFromInstance derives from Instance i
ProjectCondition(i) ==
  CASE i.phase \in {"Pending", "ProviderStarting"} ->
         [status |-> "False", reason |-> "Pending", message |-> "Instance is starting up"]
    [] i.phase \in {"ProviderReady", "ConsumerStarting"} ->
         [status |-> "False", reason |-> "ProviderReady",
          message |-> "Provider is ready, consumer is starting"]
    [] i.phase = "Running" ->
         [status |-> "True", reason |-> "Running", message |-> "Container is running"]
    [] i.phase \in {"Stopping", "Stopped"} ->
         [status |-> "False", reason |-> "Stopped",
          message |-> "Container is stopped, filesystem preserved"]
    [] i.phase = "Failed" ->
         [status |-> "False", reason |-> "Failed", message |-> i.message]
    [] OTHER ->
         [status |-> "Unknown", reason |-> "Unknown", message |-> "Unknown state"]

\* updateStatusFromInstance: the Workload status written from Instance i named n
updateStatusFromInstance(w, n, i) ==
  [w EXCEPT !.phase = ProjectPhase(i.phase),
            !.instanceName = n,
            !.providerPodName = i.providerPodName,
            !.consumerPodName = i.consumerPodName,
            !.nodeName = i.nodeName,
            !.readyStatus = ProjectCondition(i).status,
            !.readyReason = ProjectCondition(i).reason,
            !.readyMessage = ProjectCondition(i).message]

\* updateStatusFromInstance: requeue while the projected phase is not final
updateStatusResult(phase) ==
  IF phase \notin {"Running", "Stopped", "Failed"} THEN RequeueAfter(2) ELSE NoRequeue

\* updateStatusStopped
updateStatusStopped(w) ==
  [w EXCEPT !.phase = "Stopped", !.readyStatus = "False", !.readyReason = "Stopped",
            !.readyMessage = "Container is stopped, no instance exists"]

\* the Instance object createInstance submits for Workload w named n
NewInstance(n, w, uid) ==
  [NoInstance EXCEPT !.exists = TRUE, !.uid = uid, !.owner = w.uid,
                     !.workloadName = n, !.running = TRUE,
                     !.template = w.template, !.provider = w.provider,
                     !.hostPathPrefix = w.hostPathPrefix]

\* createInstance; Create answers AlreadyExists when the name is taken
createInstance(n) ==
  IF sci[n].exists
  THEN /\ Return(n, "workload", RequeueNow)
       /\ UNCHANGED apiVars
  ELSE /\ sci' = [sci EXCEPT ![n] = NewInstance(n, sc[n], nextUID)]
       /\ nextUID' = nextUID + 1
       /\ sc' = [sc EXCEPT ![n].instanceName = n, ![n].phase = "Pending",
                           ![n].readyStatus = "False",
                           ![n].readyReason = "InstanceCreated",
                           ![n].readyMessage = "StoppableContainerInstance has been created"]
       /\ Return(n, "workload", RequeueAfter(1))
       /\ UNCHANGED <<pods, creates, toggles, foreign, rejects, nodeVars>>

\* client.Delete on an Instance: removed at once unless a finalizer holds it
DeleteInstance(i) == IF i.finalizer THEN [i EXCEPT !.deleting = TRUE] ELSE NoInstance

\* StoppableContainerReconciler.handleDeletion
WorkloadHandleDeletion(n) ==
  IF ~sc[n].finalizer
  THEN /\ Return(n, "workload", NoRequeue)
       /\ UNCHANGED apiVars
  ELSE IF sci[n].exists
  THEN /\ sci' = [sci EXCEPT ![n] = DeleteInstance(sci[n])]
       /\ Return(n, "workload", RequeueAfter(1))
       /\ UNCHANGED <<sc, pods, nextUID, creates, toggles, foreign, rejects, nodeVars>>
  ELSE \* the last finalizer of a deleting object is removed: the object goes
       /\ sc' = [sc EXCEPT ![n] = NoWorkload]
       /\ Return(n, "workload", NoRequeue)
       /\ UNCHANGED <<sci, pods, nextUID, creates, toggles, foreign, rejects, nodeVars>>

\* variant of the update that also brings the copied fields up to date
syncRunningAndSpec(i, w) ==
  [i EXCEPT !.running = w.running, !.template = w.template, !.provider = w.provider,
            !.hostPathPrefix = w.hostPathPrefix]

\* Reconcile: the Instance it submits with r.Update, spec.running set to
\* the Workload's
syncRunning(i, w) == [i EXCEPT !.running = w.running]

\* StoppableContainerReconciler.Reconcile
WorkloadReconcile(n) ==
  /\ sc[n].exists
  /\ IF sc[n].deleting THEN WorkloadHandleDeletion(n)
     ELSE IF ~sc[n].finalizer
     THEN /\ sc' = [sc EXCEPT ![n].finalizer = TRUE]
          /\ Return(n, "workload", RequeueNow)
          /\ UNCHANGED <<sci, pods, nextUID, creates, toggles, foreign, rejects, nodeVars>>
     ELSE IF sc[n].running
     THEN IF ~sci[n].exists
          THEN createInstance(n)
          ELSE LET i == syncRunning(sci[n], sc[n])
               IN /\ sci' = [sci EXCEPT ![n] = i]
                  /\ sc' = [sc EXCEPT ![n] = updateStatusFromInstance(sc[n], n, i)]
                  /\ Return(n, "workload", updateStatusResult(ProjectPhase(i.phase)))
                  /\ UNCHANGED <<pods, nextUID, creates, toggles, foreign, rejects, nodeVars>>
     ELSE IF sci[n].exists
          THEN LET i == syncRunning(sci[n], sc[n])
               IN /\ sci' = [sci EXCEPT ![n] = i]
                  /\ sc' = [sc EXCEPT ![n] = updateStatusFromInstance(sc[n], n, i)]
                  /\ Return(n, "workload", updateStatusResult(ProjectPhase(i.phase)))
                  /\ UNCHANGED <<pods, nextUID, creates, toggles, foreign, rejects, nodeVars>>
          ELSE /\ sc' = [sc EXCEPT ![n] = updateStatusStopped(sc[n])]
               /\ Return(n, "workload", NoRequeue)
               /\ UNCHANGED <<sci, pods, nextUID, creates, toggles, foreign, rejects, nodeVars>>

\* ---------------------------------------------------------------------
\* Instance controller (StoppableContainerInstanceReconciler)
\* ---------------------------------------------------------------------
\* updatePhase: the phase and message written with the status
updatePhase(i, phase, message) == [i EXCEPT !.phase = phase, !.message = message]

\* variant of the requeue test that takes only Running and Failed for final
updatePhaseResultStopped(phase) ==
  IF phase \notin {"Running", "Failed"} THEN RequeueAfter(2) ELSE NoRequeue

\* updatePhase: requeue for intermediate states
updatePhaseResult(phase) ==
  IF phase \notin {"Running", "Stopped", "Failed"} THEN RequeueAfter(2) ELSE NoRequeue

\* the pod object ProviderPodBuilder.Build renders for Instance i named n
ProviderPod(n, i, uid) ==
  [NoPod EXCEPT !.exists = TRUE, !.uid = uid, !.owner = i.uid, !.instance = n,
                !.role = "provider", !.phase = "Pending"]

\* the pod object ConsumerPodBuilder.Build renders for Instance i named n
ConsumerPod(n, i, nodeName, uid) ==
  [NoPod EXCEPT !.exists = TRUE, !.uid = uid, !.owner = i.uid, !.instance = n,
                !.role = "consumer", !.nodeName = nodeName, !.phase = "Pending"]

\* variant of createProviderPod that creates the pod and writes no status
createProviderPodSilent(n) ==
  LET name == providerPodName(n) IN
  IF "provider" \in rejects
  THEN /\ Return(n, "instance", ReturnError(CreateRejectedMessage))
       /\ UNCHANGED apiVars
  ELSE IF pods[name].exists
  THEN /\ Return(n, "instance", RequeueNow)
       /\ UNCHANGED apiVars
  ELSE /\ pods' = [pods EXCEPT ![name] = ProviderPod(n, sci[n], nextUID)]
       /\ nextUID' = nextUID + 1
       /\ Return(n, "instance", RequeueAfter(2))
       /\ UNCHANGED <<sc, sci, creates, toggles, foreign, rejects, nodeVars>>

\* createProviderPod
createProviderPod(n) ==
  LET name == providerPodName(n) IN
  IF "provider" \in rejects
  THEN /\ Return(n, "instance", ReturnError(CreateRejectedMessage))
       /\ UNCHANGED apiVars
  ELSE IF pods[name].exists
  THEN /\ Return(n, "instance", RequeueNow)
       /\ UNCHANGED apiVars
  ELSE /\ pods' = [pods EXCEPT ![name] = ProviderPod(n, sci[n], nextUID)]
       /\ nextUID' = nextUID + 1
       /\ sci' = [sci EXCEPT ![n] = updatePhase(sci[n], "ProviderStarting",
                                                  "Provider pod created")]
       /\ Return(n, "instance", updatePhaseResult("ProviderStarting"))
       /\ UNCHANGED <<sc, creates, toggles, foreign, rejects, nodeVars>>

\* variant of createConsumerPod that takes an existing pod as its own and
\* records the phase
createConsumerPodAdopts(n, i) ==
  LET name == consumerPodName(n) IN
  IF i.nodeName = ""
  THEN /\ Return(n, "instance", RequeueAfter(1))
       /\ UNCHANGED apiVars
  ELSE IF "consumer" \in rejects
  THEN /\ Return(n, "instance", ReturnError(CreateRejectedMessage))
       /\ UNCHANGED apiVars
  ELSE IF pods[name].exists
  THEN /\ sci' = [sci EXCEPT ![n] = updatePhase(i, "ConsumerStarting", "Consumer pod created")]
       /\ Return(n, "instance", updatePhaseResult("ConsumerStarting"))
       /\ UNCHANGED <<sc, pods, nextUID, creates, toggles, foreign, rejects, nodeVars>>
  ELSE /\ pods' = [pods EXCEPT ![name] = ConsumerPod(n, i, i.nodeName, nextUID)]
       /\ nextUID' = nextUID + 1
       /\ sci' = [sci EXCEPT ![n] = updatePhase(i, "ConsumerStarting", "Consumer pod created")]
       /\ Return(n, "instance", updatePhaseResult("ConsumerStarting"))
       /\ UNCHANGED <<sc, creates, toggles, foreign, rejects, nodeVars>>

\* createConsumerPod; i is the in-memory Instance with the provider's data
createConsumerPod(n, i) ==
  LET name == consumerPodName(n) IN
  IF i.nodeName = ""
  THEN /\ Return(n, "instance", RequeueAfter(1))
       /\ UNCHANGED apiVars
  ELSE IF "consumer" \in rejects
  THEN /\ Return(n, "instance", ReturnError(CreateRejectedMessage))
       /\ UNCHANGED apiVars
  ELSE IF pods[name].exists
  THEN /\ Return(n, "instance", RequeueNow)
       /\ UNCHANGED apiVars
  ELSE /\ pods' = [pods EXCEPT ![name] = ConsumerPod(n, i, i.nodeName, nextUID)]
       /\ nextUID' = nextUID + 1
       /\ sci' = [sci EXCEPT ![n] = updatePhase(i, "ConsumerStarting", "Consumer pod created")]
       /\ Return(n, "instance", updatePhaseResult("ConsumerStarting"))
       /\ UNCHANGED <<sc, creates, toggles, foreign, rejects, nodeVars>>

\* variant of the stop branch that deletes the provider pod it fetched
StopDeleteTargetProvider(n) == ReconcileProviderKey(n)

\* the pod the stop branch of Reconcile deletes
StopDeleteTarget(n) == ReconcileConsumerKey(n)

\* StoppableContainerInstanceReconciler.handleDeletion
InstanceHandleDeletion(n) ==
  IF ~sci[n].finalizer
  THEN /\ Return(n, "instance", NoRequeue)
       /\ UNCHANGED apiVars
  ELSE IF pods[DeletionConsumerKey(n)].exists
  THEN /\ pods' = DeletePod(pods, DeletionConsumerKey(n))
       /\ Return(n, "instance", RequeueAfter(1))
       /\ UNCHANGED <<sc, sci, nextUID, creates, toggles, foreign, rejects, nodeVars>>
  ELSE IF pods[DeletionProviderKey(n)].exists
  THEN /\ pods' = DeletePod(pods, DeletionProviderKey(n))
       /\ Return(n, "instance", RequeueAfter(1))
       /\ UNCHANGED <<sc, sci, nextUID, creates, toggles, foreign, rejects, nodeVars>>
  ELSE /\ sci' = [sci EXCEPT ![n] = NoInstance]
       /\ Return(n, "instance", NoRequeue)
       /\ UNCHANGED <<sc, pods, nextUID, creates, toggles, foreign, rejects, nodeVars>>

\* variant of the test with the condition the wrong way round
stopRequestedInverted(i) == i.running

\* Reconcile: the test of spec.running that selects the stop branch
stopRequested(i) == ~i.running

\* Reconcile of a non-deleting Instance that carries the finalizer
InstanceSteady(n) ==
  LET pk == ReconcileProviderKey(n)
      ck == ReconcileConsumerKey(n)
      providerPod == pods[pk]
      consumerPod == pods[ck]
      withProvider == [sci[n] EXCEPT !.nodeName = providerPod.nodeName,
                                     !.providerPodName = pk,
                                     !.providerPodUID = providerPod.uid]
      withConsumer == [withProvider EXCEPT !.consumerPodName = ck,
                                           !.consumerPodUID = consumerPod.uid]
      status(i) == /\ sci' = [sci EXCEPT ![n] = i]
                   /\ Return(n, "instance", updatePhaseResult(i.phase))
                   /\ UNCHANGED <<sc, pods, nextUID, creates, toggles, foreign, rejects, nodeVars>>
  IN
  IF ~providerPod.exists THEN createProviderPod(n)
  ELSE IF ~isPodReady(providerPod) THEN status(updatePhase(sci[n], "ProviderStarting",
                          "Waiting for provider pod to be ready"))
  ELSE IF stopRequested(sci[n])
  THEN IF consumerPod.exists
       THEN /\ pods' = DeletePod(pods, StopDeleteTarget(n))
            /\ sci' = [sci EXCEPT ![n] = updatePhase(withProvider, "Stopping",
                                                       "Stopping consumer pod")]
            /\ Return(n, "instance", updatePhaseResult("Stopping"))
            /\ UNCHANGED <<sc, nextUID, creates, toggles, foreign, rejects, nodeVars>>
       ELSE status(updatePhase(withProvider, "Stopped",
                               "Consumer stopped, provider maintaining filesystem"))
  ELSE IF ~consumerPod.exists
  THEN IF withProvider.nodeName = ""
       THEN status(updatePhase(withProvider, "ProviderReady",
                               "Provider ready, waiting for node assignment"))
       ELSE createConsumerPod(n, withProvider)
  ELSE IF isPodFailed(consumerPod) THEN status(updatePhase(withConsumer, "Failed",
         "Consumer pod failed: " \o getPodFailureReason(consumerPod)))
  ELSE IF ~isPodReady(consumerPod) THEN status(updatePhase(withConsumer, "ConsumerStarting",
         "Waiting for consumer pod to be ready"))
  ELSE status(updatePhase(withConsumer, "Running", "All pods running"))

\* variant of the finalizer step that does not ask for another reconcile
InstanceAddFinalizerNoRequeue(n) ==
  /\ sci' = [sci EXCEPT ![n].finalizer = TRUE]
  /\ Return(n, "instance", NoRequeue)
  /\ UNCHANGED <<sc, pods, nextUID, creates, toggles, foreign, rejects, nodeVars>>

\* Reconcile of an Instance without the finalizer: add it and requeue
InstanceAddFinalizer(n) ==
  /\ sci' = [sci EXCEPT ![n].finalizer = TRUE]
  /\ Return(n, "instance", RequeueNow)
  /\ UNCHANGED <<sc, pods, nextUID, creates, toggles, foreign, rejects, nodeVars>>

\* StoppableContainerInstanceReconciler.Reconcile
InstanceReconcile(n) ==
  /\ sci[n].exists
  /\ IF sci[n].deleting THEN InstanceHandleDeletion(n)
     ELSE IF ~sci[n].finalizer THEN InstanceAddFinalizer(n)
     ELSE InstanceSteady(n)

\* a reconcile of the Workload whose read of the Instance came from a cache
\* that does not show the object yet: it goes on to createInstance
WorkloadStaleCreate(n) ==
  /\ sc[n].exists /\ ~sc[n].deleting /\ sc[n].finalizer /\ sc[n].running
  /\ sci[n].exists
  /\ createInstance(n)

\* a reconcile of the Instance whose read of the Provider pod came from a
\* cache that does not show the pod yet: it goes on to createProviderPod
InstanceStaleCreate(n) ==
  /\ sci[n].exists /\ ~sci[n].deleting /\ sci[n].finalizer
  /\ pods[ReconcileProviderKey(n)].exists
  /\ createProviderPod(n)

\* ---------------------------------------------------------------------
\* Cluster environment: scheduler, kubelet, garbage collector
\* ---------------------------------------------------------------------
\* the scheduler binds a pod that has no node yet
SchedulePod(p, node) ==
  /\ pods[p].exists
  /\ ~pods[p].terminating
  /\ pods[p].nodeName = ""
  /\ pods' = [pods EXCEPT ![p].nodeName = node]
  /\ UNCHANGED <<sc, sci, nextUID, creates, toggles, foreign, result, rejects, nodeVars>>

\* the kubelet starts the containers and the readiness probe succeeds
PodBecomesReady(p) ==
  /\ pods[p].exists
  /\ ~pods[p].terminating
  /\ pods[p].nodeName # ""
  /\ ~isPodReady(pods[p])
  /\ pods[p].phase # "Failed"
  /\ pods' = [pods EXCEPT ![p].phase = "Running", ![p].ready = TRUE]
  /\ UNCHANGED <<sc, sci, nextUID, creates, toggles, foreign, result, rejects, nodeVars>>

\* a pod with a deletionTimestamp is removed once its containers stopped
PodTerminated(p) ==
  /\ pods[p].exists
  /\ pods[p].terminating
  /\ pods' = [pods EXCEPT ![p] = NoPod]
  /\ UNCHANGED <<sc, sci, nextUID, creates, toggles, foreign, result, rejects, nodeVars>>

\* the owner reference the builders set makes the garbage collector delete
\* a pod whose owning Instance (by uid) is gone
GarbageCollect(p) ==
  /\ pods[p].exists
  /\ ~pods[p].terminating
  /\ pods[p].owner # 0
  /\ \A n \in Names : ~(sci[n].exists /\ sci[n].uid = pods[p].owner)
  /\ pods' = DeletePod(pods, p)
  /\ UNCHANGED <<sc, sci, nextUID, creates, toggles, foreign, result, rejects, nodeVars>>

\* a pod created by another client under a name of its choosing: it carries
\* neither the operator's labels nor an owner reference
ForeignPodCreate(p) ==
  /\ ~pods[p].exists
  /\ foreign < MaxForeign
  /\ pods' = [pods EXCEPT ![p] = [NoPod EXCEPT !.exists = TRUE, !.uid = nextUID,
                                               !.phase = "Pending"]]
  /\ nextUID' = nextUID + 1
  /\ foreign' = foreign + 1
  /\ UNCHANGED <<sc, sci, creates, toggles, result, rejects, nodeVars>>

\* an Instance created directly by a client: no owner reference
UserCreateInstance(n, r) ==
  /\ ~sci[n].exists
  /\ foreign < MaxForeign
  /\ sci' = [sci EXCEPT ![n] = [NoInstance EXCEPT !.exists = TRUE, !.uid = nextUID,
                                                 !.workloadName = n, !.running = r]]
  /\ nextUID' = nextUID + 1
  /\ foreign' = foreign + 1
  /\ UNCHANGED <<sc, pods, creates, toggles, result, rejects, nodeVars>>

\* a pod deleted by another client (kubectl delete pod, eviction, node drain)
ExternalPodDelete(p) ==
  /\ pods[p].exists
  /\ ~pods[p].terminating
  /\ foreign < MaxForeign
  /\ pods' = DeletePod(pods, p)
  /\ foreign' = foreign + 1
  /\ UNCHANGED <<sc, sci, nextUID, creates, toggles, result, rejects, nodeVars>>

\* status messages the kubelet may leave on a failed pod
PodFailureMessages == {"", "Evicted"}

\* the kubelet reports the pod Failed (containers terminated and not restarted)
PodFails(p, msg) ==
  /\ pods[p].exists
  /\ ~pods[p].terminating
  /\ pods[p].nodeName # ""
  /\ pods[p].phase # "Failed"
  /\ Cardinality({q \in PodNames : pods[q].exists /\ pods[q].phase = "Failed"}) < MaxFailed
  /\ pods' = [pods EXCEPT ![p].phase = "Failed", ![p].ready = FALSE, ![p].message = msg]
  /\ UNCHANGED <<sc, sci, nextUID, creates, toggles, foreign, result, rejects, nodeVars>>

\* ---------------------------------------------------------------------
\* MountAgent (cmd/mount-helper), one per node
\* ---------------------------------------------------------------------
\* scanAndProcessRequests: names of the directories directly under the base
ScanEntries ==
  {d[Len(WorkBasePath) + 1] :
     d \in {x \in dirs : /\ Len(x) = Len(WorkBasePath) + 1
                         /\ SubSeq(x, 1, Len(WorkBasePath)) = WorkBasePath}}

\* scanAndProcessRequests: the work directories it examines, as the agent sees them
ScanWorkDirs == {HostRootPath \o WorkBasePath \o <<e>> : e \in ScanEntries}

\* scanAndProcessRequests: Stat of <workDir>/request.json succeeds
HasRequest(w) == AgentHostPath(w \o <<RequestFileName>>) \in DOMAIN files

\* variant of the error answer that also consumes the request
RespondErrorDropRequest(fs, w, msg) ==
  RemoveFile(WriteFile(fs, AgentHostPath(w \o <<ReadyFileName>>),
                       FileContent("error", msg, "")),
             AgentHostPath(w \o <<RequestFileName>>))

\* scanAndProcessRequests: the answer written when processRequest returned an error
RespondError(fs, w, msg) ==
  WriteFile(fs, AgentHostPath(w \o <<ReadyFileName>>), FileContent("error", msg, ""))

\* ---------------------------------------------------------------------
\* MountAgent helpers. A string is a sequence of tokens: "/" and a path
\* component alternate in a path, and every other token ("lowerdir=", ",",
\* ":") holds no "/", so that a substring match of a path always falls on
\* token boundaries
\* ---------------------------------------------------------------------
RECURSIVE PathString(_)
\* the text of the absolute path with components p
PathString(p) == IF p = <<>> THEN <<>> ELSE <<"/", Head(p)>> \o PathString(Tail(p))

RECURSIVE ReplaceAll(_, _, _)
\* strings.ReplaceAll: the non-overlapping occurrences of old, from the left
ReplaceAll(s, old, new) ==
  IF Len(s) < Len(old) THEN s
  ELSE IF SubSeq(s, 1, Len(old)) = old
  THEN new \o ReplaceAll(SubSeq(s, Len(old) + 1, Len(s)), old, new)
  ELSE <<Head(s)>> \o ReplaceAll(Tail(s), old, new)

\* the directory of containerd's snapshots
ContainerdDir == <<"var", "lib", "containerd">>

\* adjustPathsForHost
adjustPathsForHost(opts) ==
  ReplaceAll(opts, PathString(ContainerdDir), PathString(HostRootPath) \o PathString(ContainerdDir))

RECURSIVE JoinPaths(_)
\* paths separated by colons
JoinPaths(ps) ==
  IF Len(ps) = 1 THEN PathString(ps[1])
  ELSE PathString(Head(ps)) \o <<":">> \o JoinPaths(Tail(ps))

\* the option text of an overlay mount as /proc/<pid>/mounts shows it
FormatOptions(o) ==
  <<"lowerdir=">> \o JoinPaths(o.lowerdir) \o <<",", "upperdir=">> \o PathString(o.upperdir)
     \o <<",", "workdir=">> \o PathString(o.workdir)

\* layer directories the helper is exercised with: a containerd snapshot, a
\* directory elsewhere, one that holds the containerd directory further
\* inside, and one that is under /host already
LayerPaths ==
  {ContainerdDir \o <<"a">>, <<"other", "b">>, <<"data">> \o ContainerdDir \o <<"c">>,
   HostRootPath \o ContainerdDir \o <<"a">>}

\* most lower layers in one mount
MaxLower == 2

\* how often the helper is applied to its own output
MaxApplications == 2

OverlayOptions ==
  [lowerdir : UNION {[1..k -> LayerPaths] : k \in 1..MaxLower},
   upperdir : LayerPaths, workdir : LayerPaths]

AdjustCalls ==
  {[fn |-> "adjustPathsForHost", opts |-> o, outs |-> <<FormatOptions(o)>>] :
     o \in OverlayOptions}

\* the helper applied to the text it was given, or to its last output
AdjustPaths ==
  /\ call.fn = "adjustPathsForHost"
  /\ Len(call.outs) <= MaxApplications
  /\ call' = [call EXCEPT !.outs = Append(@, adjustPathsForHost(call.outs[Len(call.outs)]))]
  /\ UNCHANGED <<cfg, dirs, files, mounts, host, agent, drv, clusterVars>>

\* strings.Contains, on token sequences
Contains(s, sub) == \E k \in 0..(Len(s) - Len(sub)) : SubSeq(s, k + 1, k + Len(sub)) = sub

\* RootfsMarkerEnv
RootfsMarkerEnv == "ROOTFS_MARKER=true"

RECURSIVE Itoa(_)
\* the name of /proc/<pid>: the decimal digits of pid, as character codes
Itoa(n) == IF n < 10 THEN <<48 + n>> ELSE Itoa(n \div 10) \o <<48 + (n % 10)>>

\* strconv.Atoi on an entry name: fails unless all characters are digits
IsNumeric(name) == name # <<>> /\ \A k \in DOMAIN name : name[k] \in 48..57

RECURSIVE Atoi(_)
Atoi(name) ==
  IF name = <<>> THEN 0
  ELSE 10 * Atoi(SubSeq(name, 1, Len(name) - 1)) + (name[Len(name)] - 48)

RECURSIVE NameLess(_, _)
\* the order of file names: byte by byte, a proper prefix first
NameLess(a, b) ==
  IF b = <<>> THEN FALSE
  ELSE IF a = <<>> THEN TRUE
  ELSE IF Head(a) # Head(b) THEN Head(a) < Head(b)
  ELSE NameLess(Tail(a), Tail(b))

RECURSIVE SortedNames(_)
\* os.ReadDir: the entries of the directory, sorted by file name
SortedNames(names) ==
  IF names = {} THEN <<>>
  ELSE LET first == CHOOSE a \in names : \A b \in names \ {a} : NameLess(a, b)
       IN <<first>> \o SortedNames(names \ {first})

\* /proc/self, an entry that is no process id ("self" in character codes)
SelfName == <<115, 101, 108, 102>>

\* the entries of /proc for the process table procs (a function on pids)
ProcEntries(procs) == SortedNames({Itoa(pid) : pid \in DOMAIN procs} \cup {SelfName})

\* the result of findRootfsContainer
Found(pid) == [pid |-> pid, err |-> ""]

NotFound == [pid |-> 0, err |-> "rootfs container not found"]

RECURSIVE ScanProc(_, _, _)
\* the loop of findRootfsContainer over the entries still to be examined
ScanProc(entries, procs, podUIDCgroup) ==
  IF entries = <<>> THEN NotFound
  ELSE IF ~IsNumeric(Head(entries))
  THEN ScanProc(Tail(entries), procs, podUIDCgroup)
  ELSE LET pid == Atoi(Head(entries)) IN
       IF ~Contains(procs[pid].cgroup, podUIDCgroup)
       THEN ScanProc(Tail(entries), procs, podUIDCgroup)
       ELSE IF Contains(procs[pid].environ, <<RootfsMarkerEnv>>)
       THEN Found(pid)
       ELSE ScanProc(Tail(entries), procs, podUIDCgroup)

\* findRootfsContainer
findRootfsContainer(procs, podUID) ==
  ScanProc(ProcEntries(procs), procs, ReplaceAll(podUID, <<"-">>, <<"_">>))

\* pod uids, as tokens
PodUIDs == {<<"ab", "-", "12">>, <<"cd", "-", "34">>}

\* /proc/<pid>/cgroup of a container of the pod with uid u under the systemd
\* cgroup driver, under the cgroupfs driver, and of a host process
Cgroups ==
  {<<"0::/kubepods.slice/kubepods-pod">> \o ReplaceAll(u, <<"-">>, <<"_">>) \o <<".slice">> :
      u \in PodUIDs}
  \cup {<<"0::/kubepods/pod">> \o u : u \in PodUIDs}
  \cup {<<"0::/init.scope">>}

\* /proc/<pid>/environ of the rootfs container and of another process
Environs == {<<"PATH=/bin", RootfsMarkerEnv>>, <<"PATH=/bin">>}

\* process ids on the node
Pids == {7, 9, 10}

ProcTables == UNION {[S -> [cgroup : Cgroups, environ : Environs]] : S \in SUBSET Pids}

FindCalls ==
  {[fn |-> "findRootfsContainer", procs |-> t, podUID |-> <<"ab", "-", "12">>,
    done |-> FALSE, out |-> NotFound] : t \in ProcTables}

FindRootfs ==
  /\ call.fn = "findRootfsContainer"
  /\ ~call.done
  /\ call' = [call EXCEPT !.done = TRUE, !.out = findRootfsContainer(call.procs, call.podUID)]
  /\ UNCHANGED <<cfg, dirs, files, mounts, host, agent, drv, clusterVars>>

\* ---------------------------------------------------------------------
\* MountAgent: the loop of main and processRequest
\* ---------------------------------------------------------------------
\* one line of /proc/<pid>/mounts: its first four fields; options is a
\* token sequence
MountLine(device, mountpoint, fstype, options) ==
  [device |-> device, mountpoint |-> mountpoint, fstype |-> fstype, options |-> options]

RECURSIVE JoinOptions(_)
\* option texts separated by commas
JoinOptions(os) ==
  IF Len(os) = 1 THEN os[1] ELSE Head(os) \o <<",">> \o JoinOptions(Tail(os))

\* the options of the rootfs container's overlay, over containerd snapshots
LowerOption == <<"lowerdir=">> \o PathString(ContainerdDir \o <<"lower">>)

UpperOption == <<"upperdir=">> \o PathString(ContainerdDir \o <<"upper">>)

WorkOption == <<"workdir=">> \o PathString(ContainerdDir \o <<"work">>)

\* kinds of rootfs container a node may run: none, one whose root is an
\* overlay with all its directories, one whose root is no overlay, and
\* ones whose root overlay lacks one of the directories
ContainerKinds ==
  {"absent", "running", "no-overlay", "no-workdir", "no-upperdir", "no-lowerdir"}

\* /proc/<pid>/mounts of the rootfs container of each kind
ContainerMounts(kind) ==
  LET procfs == MountLine("proc", "/proc", "proc", <<"rw">>)
      root(os) == MountLine("overlay", "/", "overlay", JoinOptions(<<<<"rw">>>> \o os))
  IN
  CASE kind = "running" -> <<procfs, root(<<LowerOption, UpperOption, WorkOption>>)>>
    [] kind = "no-overlay" ->
         <<MountLine("/dev/sda1", "/", "ext4", <<"rw">>), procfs,
           MountLine("overlay", "/mnt", "overlay",
                     JoinOptions(<<LowerOption, UpperOption, WorkOption>>))>>
    [] kind = "no-workdir" -> <<procfs, root(<<LowerOption, UpperOption>>)>>
    [] kind = "no-upperdir" -> <<procfs, root(<<LowerOption>>)>>
    [] kind = "no-lowerdir" -> <<procfs, root(<<UpperOption, WorkOption>>)>>
    [] OTHER -> <<>>

RECURSIVE getOverlayfsOptions(_)
\* getOverlayfsOptions: the fourth field of the first line that begins with
\* "overlay / overlay " (every line of the table has its four fields)
getOverlayfsOptions(lines) ==
  IF lines = <<>> THEN [opts |-> <<>>, err |-> "overlayfs mount not found"]
  ELSE IF /\ Head(lines).device = "overlay"
          /\ Head(lines).mountpoint = "/"
          /\ Head(lines).fstype = "overlay"
  THEN [opts |-> Head(lines).options, err |-> ""]
  ELSE getOverlayfsOptions(Tail(lines))

\* mountOverlay: the test of the options before the mount call
mountOverlayChecks(options) ==
  Contains(options, <<"lowerdir=">>) /\ Contains(options, <<"upperdir=">>)

\* mountOverlay: syscall.Mount of an overlay; the kernel wants a lowerdir,
\* and a workdir beside an upperdir
KernelAccepts(options) ==
  /\ Contains(options, <<"lowerdir=">>)
  /\ Contains(options, <<"upperdir=">>) => Contains(options, <<"workdir=">>)

\* mountProcDevSys: the directories it prepares under rootfs
SpecialDirs == {<<"proc">>, <<"dev">>, <<"sys">>, <<"dev", "pts">>, <<"dev", "shm">>, <<"tmp">>}

\* mountProcDevSys: those whose failure it reports (dev/pts and dev/shm are
\* mounted with the error dropped)
ReportedDirs == {<<"proc">>, <<"dev">>, <<"sys">>, <<"tmp">>}

\* mountProcDevSys: those it mounts something on (tmp is only created)
SpecialMounts == SpecialDirs \ {<<"tmp">>}

\* the failures mountProcDevSys is exercised with: none, one reported, the
\* unreported ones, and all
SpecialFailures ==
  {{}, {<<"proc">>}, {<<"dev", "pts">>, <<"dev", "shm">>}, SpecialDirs}

\* mountProcDevSys when the steps for the directories in failing fail: the
\* directories made, the mounts made and the errors collected
mountProcDevSys(rootfsDir, failing) ==
  [dirs |-> UNION {Ancestors(rootfsDir \o d) : d \in SpecialDirs \ failing},
   mounts |-> {rootfsDir \o d : d \in SpecialMounts \ failing},
   errs |-> ReportedDirs \cap failing]

\* file names as character codes, for the order of os.ReadDir
EntryCodes ==
  [default |-> <<100, 101, 102, 97, 117, 108, 116>>,
   demo |-> <<100, 101, 109, 111>>,
   stoppablecontainer |->
     <<115, 116, 111, 112, 112, 97, 98, 108, 101, 99, 111, 110, 116, 97, 105, 110, 101, 114>>,
   web |-> <<119, 101, 98>>]

RECURSIVE SortedEntries(_)
\* os.ReadDir: the entries sorted by file name
SortedEntries(names) ==
  IF names = {} THEN <<>>
  ELSE LET first == CHOOSE a \in names :
                      \A b \in names \ {a} : NameLess(EntryCodes[a], EntryCodes[b])
       IN <<first>> \o SortedEntries(names \ {first})

\* the work directory of an entry, as the agent sees it
WorkDirOf(e) == HostRootPath \o WorkBasePath \o <<e>>

\* variant of the loop that gives up the pass at the first failure
AfterErrorAbort(queue) == <<>>

\* scanAndProcessRequests: after a processRequest that failed, the loop
\* goes on with the next entry
AfterError(queue) == Tail(queue)

\* variant of the final answer that reports the collected errors
ReadyResponseWithErrors ==
  IF agent.errs # {} THEN FileContent("error", "mount errors", "")
  ELSE FileContent("ready", "", "")

\* processRequest: the answer written at its end
ReadyResponse == FileContent("ready", "", "")

\* main: a pass of the loop begins, scanAndProcessRequests lists the base
AgentScan ==
  /\ agent.pc = "idle"
  /\ agent.queue = <<>>
  /\ agent' = [agent EXCEPT !.queue = SortedEntries(ScanEntries),
                            !.pass = SortedEntries(ScanEntries),
                            !.done = <<>>]
  /\ UNCHANGED <<cfg, dirs, files, mounts, host, drv, call, clusterVars>>

\* scanAndProcessRequests: an entry without request.json is passed over
AgentSkip ==
  /\ agent.pc = "idle"
  /\ agent.queue # <<>>
  /\ ~HasRequest(WorkDirOf(Head(agent.queue)))
  /\ agent' = [agent EXCEPT !.queue = Tail(@)]
  /\ UNCHANGED <<cfg, dirs, files, mounts, host, drv, call, clusterVars>>

\* processRequest for the next entry of the pass, up to and including
\* mountProcDevSys, and the error answer of the scan when it fails; mountOK
\* tells whether the mount call is let through
AgentProcess(w, mountOK) ==
  LET req == files[AgentHostPath(w \o <<RequestFileName>>)]
      rootfsDir == AgentHostPath(w \o <<"rootfs">>)
      found == getOverlayfsOptions(ContainerMounts(host.container))
      options == adjustPathsForHost(found.opts)
      stamp == IF AgentHostPath(w) = GetHostPath(cfg) THEN drv.written ELSE NoStamp
      called == [agent EXCEPT !.done = Append(@, Head(agent.queue)),
                              !.crashedOn = IF @ = w THEN <<>> ELSE @]
      failed(msg) ==
        /\ files' = RespondError(files, w, msg)
        /\ agent' = [called EXCEPT !.queue = AfterError(@),
                       !.answered = IF AgentHostPath(w) = GetHostPath(cfg) THEN stamp ELSE @]
      mountCall == [host EXCEPT !.mountCalls =
                      @ \cup {[target |-> rootfsDir, options |-> options]}]
  IN
  /\ agent.pc = "idle"
  /\ agent.queue # <<>>
  /\ w = WorkDirOf(Head(agent.queue))
  /\ HasRequest(w)
  /\ IF host.container = "absent" \/ req.podUID # DriverPodUID
     THEN /\ failed("failed to find rootfs container: rootfs container not found for pod "
                      \o req.podUID)
          /\ UNCHANGED <<dirs, mounts, host>>
     ELSE IF found.err # ""
     THEN /\ failed("failed to get overlayfs options: " \o found.err)
          /\ UNCHANGED <<dirs, mounts, host>>
     ELSE IF ~mountOverlayChecks(options)
     THEN /\ dirs' = dirs \cup Ancestors(rootfsDir)
          /\ failed("failed to mount overlay: invalid overlay options: missing lowerdir or upperdir")
          /\ UNCHANGED <<mounts, host>>
     ELSE IF ~(mountOK /\ KernelAccepts(options))
     THEN /\ dirs' = dirs \cup Ancestors(rootfsDir)
          /\ host' = mountCall
          /\ failed("failed to mount overlay: mount syscall failed")
          /\ UNCHANGED mounts
     ELSE \E failing \in SpecialFailures :
            LET special == mountProcDevSys(rootfsDir, failing) IN
            /\ dirs' = dirs \cup Ancestors(rootfsDir) \cup special.dirs
            /\ mounts' = mounts \cup {rootfsDir} \cup special.mounts
            /\ host' = mountCall
            /\ agent' = [called EXCEPT !.queue = Tail(@), !.pc = "mounted", !.workDir = w,
                                       !.errs = special.errs, !.reading = stamp]
            /\ UNCHANGED files
  /\ UNCHANGED <<cfg, drv, call, clusterVars>>

\* processRequest: os.Remove(requestFile)
AgentRemoveRequest ==
  /\ agent.pc = "mounted"
  /\ files' = RemoveFile(files, AgentHostPath(agent.workDir \o <<RequestFileName>>))
  /\ agent' = [agent EXCEPT !.pc = "removed"]
  /\ UNCHANGED <<cfg, dirs, mounts, host, drv, call, clusterVars>>

\* processRequest: writeResponse(ready); the loop goes on with the next entry
AgentWriteReady ==
  /\ agent.pc = "removed"
  /\ files' = WriteFile(files, AgentHostPath(agent.workDir \o <<ReadyFileName>>),
                        ReadyResponse)
  /\ agent' = [agent EXCEPT !.pc = "idle", !.workDir = <<>>, !.errs = {},
                 !.reading = NoStamp,
                 !.answered = IF AgentHostPath(agent.workDir) = GetHostPath(cfg)
                              THEN agent.reading ELSE @]
  /\ UNCHANGED <<cfg, dirs, mounts, host, drv, call, clusterVars>>

\* the agent's process dies and its container is started again: main begins
\* anew, the files and the mounts made on the host stay
AgentCrash ==
  /\ agent.pc # "idle" \/ agent.queue # <<>>
  /\ agent' = [AgentIdle EXCEPT !.answered = agent.answered,
                 !.crashedOn = IF agent.pc = "mounted" THEN agent.workDir
                               ELSE agent.crashedOn]
  /\ UNCHANGED <<cfg, dirs, files, mounts, host, drv, call, clusterVars>>

\* the rootfs container of the Provider pod starts on the node; kind tells
\* what its root mount is
ContainerStarts(kind) ==
  /\ host.container = "absent"
  /\ host' = [host EXCEPT !.container = kind]
  /\ UNCHANGED <<cfg, dirs, files, mounts, agent, drv, call, clusterVars>>


\* ---------------------------------------------------------------------
\* ConsumerPodBuilder: the security context of the Consumer container
\* ---------------------------------------------------------------------
\* a nil *SecurityContext
NilContext == [nil |-> TRUE]

RECURSIVE MergeCaps(_, _)
\* variant of the merge that appends the user's capabilities as they are
MergeCapsAppend(add, userAdd) == add \o userAdd

\* buildSecurityContext: the user's capabilities appended to add, each unless
\* it is in the list already
MergeCaps(add, userAdd) ==
  IF userAdd = <<>> THEN add
  ELSE MergeCaps(IF \E k \in DOMAIN add : add[k] = Head(userAdd)
                    THEN add ELSE Append(add, Head(userAdd)),
                 Tail(userAdd))

\* buildSecurityContext; privileged is "unset", "true" or "false", runAsGroup
\* is -1 when unset, capabilities.nil says the user gave no capabilities
buildSecurityContext(userCtx) ==
  LET requiredCaps == <<"SYS_CHROOT">>
      ctx == [nil |-> FALSE, privileged |-> "unset", runAsGroup |-> -1,
              capabilities |-> [nil |-> FALSE, add |-> requiredCaps]]
  IN IF userCtx.nil THEN ctx
     ELSE [ctx EXCEPT
             !.runAsGroup = IF userCtx.runAsGroup # -1 THEN userCtx.runAsGroup ELSE @,
             !.capabilities.add = IF ~userCtx.capabilities.nil
                                     THEN MergeCaps(@, userCtx.capabilities.add) ELSE @]

\* capabilities a template may ask for
Capabilities == {"SYS_CHROOT", "SYS_ADMIN", "NET_ADMIN"}

\* most capabilities in the securityContext of a template
MaxCaps == 2

\* securityContext of the template's container
UserContexts ==
  {NilContext} \cup
  [nil : {FALSE}, privileged : {"unset", "true", "false"}, runAsGroup : {-1, 1000},
   capabilities : {[nil |-> TRUE, add |-> <<>>]} \cup
                  [nil : {FALSE}, add : UNION {[1..k -> Capabilities] : k \in 0..MaxCaps}]]

SecurityCalls ==
  {[fn |-> "buildSecurityContext", userCtx |-> u, done |-> FALSE, out |-> NilContext] :
     u \in UserContexts}

\* ConsumerPodBuilder.Build sets the container's securityContext
BuildSecurity ==
  /\ call.fn = "buildSecurityContext"
  /\ ~call.done
  /\ call' = [call EXCEPT !.done = TRUE, !.out = buildSecurityContext(call.userCtx)]
  /\ UNCHANGED <<cfg, dirs, files, mounts, host, agent, drv, clusterVars>>

\* ---------------------------------------------------------------------
\* Provider driver (cmd/provider), the main container of the Provider pod
\* ---------------------------------------------------------------------
\* main: number of request attempts
MaxAttempts == 3

\* variant of the error branch of the poll loop that does not record the error
ErrorAnswerForgets(d, msg) == d

\* main: the poll loop read a ready.json with status=error
ErrorAnswer(d, msg) == [d EXCEPT !.lastError = "mount failed: " \o msg]

\* main: the end of one attempt that did not break out of the retry loop,
\* and the test of lastError once the loop is left
EndAttempt(d, outcome) ==
  LET d1 == [d EXCEPT !.outcomes = Append(@, outcome)] IN
  IF d.attempt < MaxAttempts
  THEN [d1 EXCEPT !.attempt = @ + 1, !.pc = "retry", !.polls = 0]
  ELSE IF d1.lastError # ""
  THEN [d1 EXCEPT !.pc = "exited", !.exitCode = 1]
  ELSE [d1 EXCEPT !.pc = "mark"]

\* variant of the retry that empties ready.json instead of removing it
DriverRetryTruncates ==
  /\ drv.pc = "retry"
  /\ files' = WriteFile(files, DriverHostPath(cfg, PropagatedPath \o <<ReadyFile>>),
                        FileContent("", "", ""))
  /\ drv' = [drv EXCEPT !.pc = "write"]
  /\ UNCHANGED <<cfg, dirs, mounts, host, agent, call, clusterVars>>

\* main: on a retry, os.Remove(readyPath) (followed by a sleep)
DriverRetry ==
  /\ drv.pc = "retry"
  /\ files' = RemoveFile(files, DriverHostPath(cfg, PropagatedPath \o <<ReadyFile>>))
  /\ drv' = [drv EXCEPT !.pc = "write"]
  /\ UNCHANGED <<cfg, dirs, mounts, host, agent, call, clusterVars>>

\* main: os.WriteFile(requestPath, ...)
DriverWriteRequest ==
  /\ drv.pc = "write"
  /\ files' = WriteFile(files, DriverHostPath(cfg, PropagatedPath \o <<RequestFile>>),
                        FileContent("", "", DriverPodUID))
  /\ drv' = [drv EXCEPT !.pc = "poll", !.polls = 0,
                       !.written = [run |-> drv.run, attempt |-> drv.attempt]]
  /\ UNCHANGED <<cfg, dirs, mounts, host, agent, call, clusterVars>>

\* main: one iteration of the poll loop (read ready.json, then sleep)
DriverPoll ==
  LET readyPath == DriverHostPath(cfg, PropagatedPath \o <<ReadyFile>>) IN
  /\ drv.pc = "poll"
  /\ drv' = IF readyPath \in DOMAIN files /\ files[readyPath].status = "ready"
            THEN [drv EXCEPT !.pc = "verify"]
            ELSE IF readyPath \in DOMAIN files /\ files[readyPath].status = "error"
            THEN EndAttempt(ErrorAnswer(drv, files[readyPath].message), "error")
            ELSE IF drv.polls + 1 < MaxPolls
            THEN [drv EXCEPT !.polls = @ + 1]
            ELSE EndAttempt(drv, "timeout")
  /\ UNCHANGED <<cfg, dirs, files, mounts, host, agent, call, clusterVars>>

\* main: after status=ready, the checks of rootfs and of bin or usr/bin in it
\* (the image's directories are visible once the overlay is mounted)
DriverVerify ==
  LET rootfsPath == DriverHostPath(cfg, PropagatedPath \o <<RootfsDir>>) IN
  /\ drv.pc = "verify"
  /\ drv' = IF rootfsPath \notin dirs
            THEN EndAttempt([drv EXCEPT !.lastError = "rootfs directory not found"],
                            "unverified")
            ELSE IF rootfsPath \notin mounts
            THEN EndAttempt([drv EXCEPT !.lastError = "rootfs appears empty"],
                            "unverified")
            ELSE [drv EXCEPT !.lastError = "", !.outcomes = Append(@, "verified"),
                             !.pc = "mark"]
  /\ UNCHANGED <<cfg, dirs, files, mounts, host, agent, call, clusterVars>>

\* main: os.WriteFile(markerPath, "ready"), then wait for a signal
DriverWriteMarker ==
  /\ drv.pc = "mark"
  /\ files' = WriteFile(files, DriverHostPath(cfg, PropagatedPath \o <<ReadyMarker>>),
                        FileContent("", "ready", ""))
  /\ drv' = [drv EXCEPT !.pc = "waiting"]
  /\ UNCHANGED <<cfg, dirs, mounts, host, agent, call, clusterVars>>

\* the kubelet starts the driver's container again after it exited
\* (restartPolicy Always): main begins anew, the files in the hostPath
\* directory stay
DriverRestart ==
  /\ drv.pc = "exited"
  /\ drv.run < MaxRuns
  /\ drv' = [DriverStart EXCEPT !.run = drv.run + 1, !.written = drv.written]
  /\ UNCHANGED <<cfg, dirs, files, mounts, host, agent, call, clusterVars>>

\* ---------------------------------------------------------------------
\* Specifications
\* ---------------------------------------------------------------------
Next ==
  \/ \E n \in Names, r \in BOOLEAN : UserCreate(n, r)
  \/ \E n \in Names : UserSetRunning(n)
  \/ \E n \in Names : UserDelete(n)
  \/ \E n \in Names : WorkloadReconcile(n)
  \/ \E n \in Names : InstanceReconcile(n)
  \/ \E p \in PodNames, node \in Nodes : SchedulePod(p, node)
  \/ \E p \in PodNames : PodBecomesReady(p)
  \/ \E p \in PodNames : PodTerminated(p)
  \/ \E p \in PodNames : GarbageCollect(p)

Spec == Init /\ [][Next]_vars

\* the same cluster when other API clients also create pods and Instances
NextEnv ==
  \/ Next
  \/ \E p \in PodNames : ForeignPodCreate(p)
  \/ \E n \in Names, r \in BOOLEAN : UserCreateInstance(n, r)

SpecEnv == Init /\ [][NextEnv]_vars

\* the cluster when the controllers' reads may lag behind their own writes
NextStale ==
  \/ Next
  \/ \E n \in Names : WorkloadStaleCreate(n)
  \/ \E n \in Names : InstanceStaleCreate(n)

SpecStale == Init /\ [][NextStale]_vars

\* the cluster when the user also edits the Workload's spec
NextEdit ==
  \/ Next
  \/ \E n \in Names, f \in CopiedFields : UserEdit(n, f)

SpecEdit == Init /\ [][NextEdit]_vars

\* reconciles are scheduled fairly (requeue / watch events) and the cluster
\* makes progress on every pod
Fairness ==
  /\ \A n \in Names : WF_vars(WorkloadReconcile(n)) /\ WF_vars(InstanceReconcile(n))
  /\ \A p \in PodNames :
        /\ WF_vars(\E node \in Nodes : SchedulePod(p, node))
        /\ WF_vars(PodBecomesReady(p))
        /\ WF_vars(PodTerminated(p))
        /\ WF_vars(GarbageCollect(p))

FairSpec == Spec /\ Fairness

FairSpecEnv == SpecEnv /\ Fairness

\* the cluster when other API clients delete pods
NextEvict ==
  \/ Next
  \/ \E p \in PodNames : ExternalPodDelete(p)

SpecEvict == Init /\ [][NextEvict]_vars

\* the cluster when other clients create pods and pods may fail
NextFault ==
  \/ Next
  \/ \E p \in PodNames : ForeignPodCreate(p)
  \/ \E p \in PodNames, msg \in PodFailureMessages : PodFails(p, msg)

SpecFault == Init /\ [][NextFault]_vars

FairSpecFault == SpecFault /\ Fairness

\* roles the operator creates pods in
PodRoles == {"provider", "consumer"}

\* the cluster when the API server refuses to create the pods of some roles
\* (admission control, quota, an invalid pod template)
RejectInit ==
  /\ sc = [n \in Names |-> NoWorkload]
  /\ sci = [n \in Names |-> NoInstance]
  /\ pods = [p \in PodNames |-> NoPod]
  /\ nextUID = 1
  /\ creates = 0
  /\ toggles = 0
  /\ foreign = 0
  /\ result = [n \in Names |-> [workload |-> NoRequeue, instance |-> NoRequeue]]
  /\ rejects \in SUBSET PodRoles
  /\ NodeIdle

SpecReject == RejectInit /\ [][Next]_vars

\* such a cluster when other API clients delete pods
SpecRejectEvict == RejectInit /\ [][NextEvict]_vars

\* the helper functions of the node programs, each on the inputs drawn
HelperInit ==
  /\ ClusterInit
  /\ cfg = [hostPathPrefix |-> <<>>, namespace |-> "default", name |-> "demo"]
  /\ dirs = {}
  /\ files = [q \in {} |-> FileContent("", "", "")]
  /\ mounts = {}
  /\ host = [container |-> "absent", mountCalls |-> {}]
  /\ agent = AgentIdle
  /\ drv = [DriverStart EXCEPT !.pc = "off"]
  /\ call \in AdjustCalls \cup FindCalls \cup SecurityCalls

HelperNext ==
  \/ AdjustPaths
  \/ FindRootfs
  \/ BuildSecurity

HelperSpec == HelperInit /\ [][HelperNext]_vars

\* values Instance.status.phase can hold: the enum of the CRD, or empty
InstancePhases ==
  {"", "Pending", "ProviderStarting", "ProviderReady", "ConsumerStarting",
   "Running", "Stopping", "Stopped", "Failed"}

\* values of Instance.status.message the projection is exercised with
InstanceMessages == {"", "All pods running", "Consumer pod failed: Evicted"}

\* the status projection on its own: a reconciled Workload next to an owned
\* Instance in any phase, with any message, spec.running and node
ProjectionInit ==
  /\ \E r \in BOOLEAN :
       sc = [n \in Names |-> [NoWorkload EXCEPT !.exists = TRUE, !.uid = 1, !.running = r,
                                                !.finalizer = TRUE]]
  /\ \E ph \in InstancePhases, msg \in InstanceMessages, r \in BOOLEAN,
        node \in Nodes \cup {""} :
       sci = [n \in Names |->
                [NewInstance(n, sc[n], 2) EXCEPT !.finalizer = TRUE, !.running = r,
                                                !.phase = ph, !.message = msg,
                                                !.nodeName = node]]
  /\ pods = [p \in PodNames |-> NoPod]
  /\ nextUID = 3
  /\ creates = 1
  /\ toggles = 0
  /\ foreign = 0
  /\ result = [n \in Names |-> [workload |-> NoRequeue, instance |-> NoRequeue]]
  /\ rejects = {}
  /\ NodeIdle

ProjectionNext == \E n \in Names : WorkloadReconcile(n)

ProjectionSpec == ProjectionInit /\ [][ProjectionNext]_vars

\* one node: the kubelet has created the hostPath directory of the Provider
\* pod of an Instance and started the driver; the agent loops
RendezvousInit ==
  /\ ClusterInit
  /\ cfg \in Configs
  /\ dirs = Ancestors(GetHostPath(cfg))
  /\ files = [q \in {} |-> FileContent("", "", "")]
  /\ mounts = {}
  /\ host \in [container : ContainerKinds, mountCalls : {{}}]
  /\ agent = AgentIdle
  /\ drv = DriverStart
  /\ call = NoCall

RendezvousNext ==
  \/ AgentScan
  \/ AgentSkip
  \/ \E w \in ScanWorkDirs, mountOK \in BOOLEAN : AgentProcess(w, mountOK)
  \/ AgentRemoveRequest
  \/ AgentWriteReady
  \/ \E kind \in ContainerKinds \ {"absent"} : ContainerStarts(kind)
  \/ DriverRetry
  \/ DriverWriteRequest
  \/ DriverPoll
  \/ DriverVerify
  \/ DriverWriteMarker

RendezvousSpec == RendezvousInit /\ [][RendezvousNext]_vars

\* the agent's loop and the driver keep running
RendezvousFairness ==
  /\ WF_vars(AgentScan)
  /\ WF_vars(AgentSkip)
  /\ WF_vars(\E w \in ScanWorkDirs, mountOK \in BOOLEAN : AgentProcess(w, mountOK))
  /\ WF_vars(AgentRemoveRequest)
  /\ WF_vars(AgentWriteReady)
  /\ WF_vars(DriverRetry)
  /\ WF_vars(DriverWriteRequest)
  /\ WF_vars(DriverPoll)
  /\ WF_vars(DriverVerify)
  /\ WF_vars(DriverWriteMarker)

FairRendezvousSpec == RendezvousSpec /\ RendezvousFairness

\* the rendezvous with an agent that may die and be started again
RendezvousCrashNext == RendezvousNext \/ AgentCrash

RendezvousCrashSpec == RendezvousInit /\ [][RendezvousCrashNext]_vars

\* the rendezvous with a driver whose container is started again
RendezvousRestartNext == RendezvousNext \/ DriverRestart

RendezvousRestartSpec == RendezvousInit /\ [][RendezvousRestartNext]_vars

\* work directories one pass of the agent may meet under the base
PassEntries == {"default", "demo", "web"}

\* pod UIDs the requests of a pass may name: the one whose rootfs container
\* the node may run, and one without a container on the node
PassPodUIDs == {DriverPodUID, "uid-2"}

\* one node with several work directories directly under the base, some
\* holding a request.json; no driver runs, the agent loops
PassInit ==
  /\ ClusterInit
  /\ cfg = [hostPathPrefix |-> <<>>, namespace |-> "default", name |-> "demo"]
  /\ \E es \in SUBSET PassEntries :
       /\ dirs = Ancestors(WorkBasePath) \cup {WorkBasePath \o <<e>> : e \in es}
       /\ \E rs \in SUBSET es :
            files \in [{WorkBasePath \o <<e, RequestFileName>> : e \in rs} ->
                        {FileContent("", "", uid) : uid \in PassPodUIDs}]
  /\ mounts = {}
  /\ host \in [container : ContainerKinds, mountCalls : {{}}]
  /\ agent = AgentIdle
  /\ drv = [DriverStart EXCEPT !.pc = "off"]
  /\ call = NoCall

PassNext ==
  \/ AgentScan
  \/ AgentSkip
  \/ \E w \in ScanWorkDirs, mountOK \in BOOLEAN : AgentProcess(w, mountOK)
  \/ AgentRemoveRequest
  \/ AgentWriteReady
  \/ \E kind \in ContainerKinds \ {"absent"} : ContainerStarts(kind)

PassSpec == PassInit /\ [][PassNext]_vars

\* ---------------------------------------------------------------------
\* Properties
\* ---------------------------------------------------------------------
\* the Workload asks for a running container and is not being deleted
WantsRunning(n) == sc[n].exists /\ ~sc[n].deleting /\ sc[n].running

\* pods carrying the instance label of Instance n
LabelledPods(n) == {p \in PodNames : pods[p].exists /\ pods[p].instance = n}

\* C1 - Start liveness: a non-deleting Workload with spec.running=true
\* eventually reports phase Running with its Provider pod <name>-provider and
\* its Consumer pod <name> existing (unless the user stops or deletes it first).
StartLiveness ==
  \A n \in Names :
    [](WantsRunning(n) =>
         <>(\/ ~WantsRunning(n)
            \/ /\ sc[n].phase = "Running"
               /\ pods[n \o "-provider"].exists
               /\ pods[n].exists))

\* C2 - Pod naming agreement: every Provider pod the builder rendered for
\* Instance n is named <n>-provider, every Consumer pod is named <n>, and
\* these are the names under which Reconcile and handleDeletion look the
\* pods up.
PodNamingAgreement ==
  \A n \in Names : \A p \in LabelledPods(n) :
    /\ pods[p].role = "provider" =>
         p = n \o "-provider" /\ p = ReconcileProviderKey(n) /\ p = DeletionProviderKey(n)
    /\ pods[p].role = "consumer" =>
         p = n /\ p = ReconcileConsumerKey(n) /\ p = DeletionConsumerKey(n)

\* C3 - An Instance (not being deleted) in phase Running has its Provider
\* pod and its Consumer pod existing and Ready.
RunningHasReadyPods ==
  \A n \in Names :
    (sci[n].exists /\ ~sci[n].deleting /\ sci[n].phase = "Running") =>
      /\ pods[providerPodName(n)].exists /\ isPodReady(pods[providerPodName(n)])
      /\ pods[consumerPodName(n)].exists /\ isPodReady(pods[consumerPodName(n)])

\* C4 - An Instance (not being deleted) in phase Stopped has its Provider
\* pod existing and Ready and no Consumer pod under its derived consumer name.
StoppedHasNoConsumer ==
  \A n \in Names :
    (sci[n].exists /\ ~sci[n].deleting /\ sci[n].phase = "Stopped") =>
      /\ pods[providerPodName(n)].exists /\ isPodReady(pods[providerPodName(n)])
      /\ ~pods[consumerPodName(n)].exists

\* C5 - Stop liveness: from a Running Workload whose spec.running was set
\* to false, eventually Instance.spec.running is false, the Consumer pod is
\* gone and the Workload reports Stopped (unless the user restarts or
\* deletes it first).
StopLiveness ==
  \A n \in Names :
    []((sc[n].exists /\ ~sc[n].deleting /\ ~sc[n].running /\ sc[n].phase = "Running") =>
         <>(\/ ~sc[n].exists \/ sc[n].deleting \/ sc[n].running
            \/ /\ sci[n].exists /\ ~sci[n].running
               /\ ~pods[consumerPodName(n)].exists
               /\ sc[n].phase = "Stopped"))

\* the reconcile of Instance n runs the branch that handles spec.running=false
HandlesStop(n) ==
  /\ sci[n].exists /\ ~sci[n].deleting /\ sci[n].finalizer /\ ~sci[n].running
  /\ pods[ReconcileProviderKey(n)].exists
  /\ isPodReady(pods[ReconcileProviderKey(n)])

RestartLiveness ==
  \A n \in Names :
    []((/\ sci[n].exists /\ ~sci[n].deleting /\ sci[n].running
        /\ sci[n].phase = "Stopped"
        /\ isPodReady(pods[providerPodName(n)])) =>
         <>(\/ ~sci[n].exists \/ sci[n].deleting \/ ~sci[n].running
            \/ /\ sci[n].phase = "Running"
               /\ isPodReady(pods[consumerPodName(n)])))

\* C8 - Deletion cascade: the deleted Workload is removed only after the
\* Instance and every pod labelled with it have ceased to exist.
DeletionCascadeOrder ==
  [][\A n \in Names :
       (sc[n].exists /\ sc[n].deleting /\ ~sc'[n].exists) =>
         (~sci[n].exists /\ LabelledPods(n) = {})]_vars

\* C9 - Finalizer gating: in no state does an Instance exist without its
\* Workload, or a pod of an Instance exist without the Instance.
FinalizerGating ==
  \A n \in Names :
    /\ sci[n].exists => sc[n].exists
    /\ \A p \in LabelledPods(n) : sci[n].exists /\ sci[n].uid = pods[p].owner

\* C10 - Any Instance the Workload controller drives (flips spec.running
\* on, or projects status from) carries an owner reference to that Workload.
DrivenInstanceIsOwned ==
  [][\A n \in Names :
       (/\ WorkloadReconcile(n)
        /\ ~sc[n].deleting /\ sc[n].finalizer /\ sci[n].exists
        /\ (sci'[n] # sci[n] \/ sc'[n] # sc[n])) =>
         sci[n].owner = sc[n].uid]_vars

\* consumer pods the builder rendered for Instance n
ConsumerPods(n) == {p \in LabelledPods(n) : pods[p].role = "consumer"}

\* C11 - Node pinning: a reconcile creates a Consumer pod only when the
\* Instance status it holds carries a non-empty nodeName, and whenever the
\* Instance has a non-empty status.nodeName and a Consumer pod exists, the
\* pod's spec.nodeName equals Instance.status.nodeName.
NodePinning ==
  \A n \in Names : \A p \in ConsumerPods(n) :
    /\ pods[p].nodeName # ""
    /\ (sci[n].exists /\ sci[n].uid = pods[p].owner /\ sci[n].nodeName # "") =>
         pods[p].nodeName = sci[n].nodeName

\* C12 - The Workload never reports phase Running while its Consumer pod is
\* absent or not Ready.
RunningImpliesConsumerReady ==
  \A n \in Names :
    (sc[n].exists /\ sc[n].phase = "Running") =>
      /\ pods[consumerPodName(n)].exists
      /\ pods[consumerPodName(n)].role = "consumer"
      /\ isPodReady(pods[consumerPodName(n)])

\* the Workload phase and Ready condition (status, reason) for Instance phase p
ProjectionTable(p) ==
  CASE p = "Pending" -> <<"Pending", "False", "Pending">>
    [] p = "ProviderStarting" -> <<"Pending", "False", "Pending">>
    [] p = "ProviderReady" -> <<"ProviderReady", "False", "ProviderReady">>
    [] p = "ConsumerStarting" -> <<"ProviderReady", "False", "ProviderReady">>
    [] p = "Running" -> <<"Running", "True", "Running">>
    [] p = "Stopping" -> <<"Stopped", "False", "Stopped">>
    [] p = "Stopped" -> <<"Stopped", "False", "Stopped">>
    [] p = "Failed" -> <<"Failed", "False", "Failed">>
    [] OTHER -> <<"Pending", "Unknown", "Unknown">>

\* the reconcile of Workload n takes the path that ends in updateStatusFromInstance
ProjectsStatus(n) ==
  /\ WorkloadReconcile(n)
  /\ ~sc[n].deleting /\ sc[n].finalizer /\ sci[n].exists

\* C13 - Status projection: a reconcile that ends in updateStatusFromInstance
\* leaves the Workload with the phase and Ready condition the table gives
\* for the Instance's phase; for Failed the condition message is the
\* Instance's message; any other phase (the empty one included) gives
\* Pending with Unknown/Unknown.
StatusProjection ==
  [][\A n \in Names :
       ProjectsStatus(n) =>
         /\ <<sc'[n].phase, sc'[n].readyStatus, sc'[n].readyReason>>
              = ProjectionTable(sci[n].phase)
         /\ sci[n].phase = "Failed" => sc'[n].readyMessage = sci[n].message]_vars

\* C13 witness: the Workload carries the projection of a Failed Instance,
\* with the Instance's failure message
FailedProjected ==
  \E n \in Names :
    /\ sc[n].exists /\ sci[n].exists /\ sci[n].phase = "Failed"
    /\ sc[n].phase = "Failed" /\ sc[n].readyStatus = "False"
    /\ sc[n].readyReason = "Failed"
    /\ sci[n].message = "Consumer pod failed: Evicted"
    /\ sc[n].readyMessage = sci[n].message

\* the host directory the Provider pod mounts at /propagated
DriverDir == GetHostPath(cfg)

\* C14 - Rendezvous liveness: whenever the driver's request.json lies in
\* its work directory, the agent eventually writes ready.json there, with
\* status=ready and the overlay mounted at <workdir>/rootfs, or with
\* status=error.
RendezvousLiveness ==
  [](DriverDir \o <<RequestFile>> \in DOMAIN files =>
       <>(/\ DriverDir \o <<ReadyFile>> \in DOMAIN files
          /\ \/ /\ files[DriverDir \o <<ReadyFile>>].status = "ready"
                /\ DriverDir \o <<RootfsDir>> \in mounts
             \/ files[DriverDir \o <<ReadyFile>>].status = "error"))

\* C15 - Work-directory agreement: the directory into which the driver
\* writes request.json, <hostPathPrefix>/<namespace>/<name>, is one of the
\* directories the agent's scan examines.
WorkDirAgreement ==
  drv.pc # "off" => DriverDir \in {AgentHostPath(w) : w \in ScanWorkDirs}

\* paths of the rendezvous files of work directory w (as the agent sees it)
RequestOf(w) == AgentHostPath(w \o <<RequestFileName>>)

ReadyOf(w) == AgentHostPath(w \o <<ReadyFileName>>)

MarkerPath == DriverDir \o <<ReadyMarker>>

\* C17 - The `ready` sentinel exists only if, in this run, the driver read a
\* ready.json with status=ready and verified the rootfs mount.
SentinelOnlyAfterVerified ==
  MarkerPath \in DOMAIN files =>
    "verified" \in {drv.outcomes[k] : k \in DOMAIN drv.outcomes}

\* every attempt of the driver so far ended on a ready.json with status=error
AllAnswersError == \A k \in DOMAIN drv.outcomes : drv.outcomes[k] = "error"

\* C18 - Driver termination on protocol failure: the driver makes at most
\* 3 attempts; each retry begins by deleting ready.json, before the next
\* request is written; and when every attempt was answered with
\* status=error the driver has exited non-zero after the third and the
\* `ready` sentinel is not written.
DriverGivesUp ==
  /\ [](drv.attempt \in 1..3 /\ Len(drv.outcomes) <= 3)
  /\ [][/\ drv'.attempt # drv.attempt =>
             drv'.attempt = drv.attempt + 1 /\ drv'.pc = "retry"
        /\ (drv.pc = "retry" /\ drv' # drv) =>
             /\ DriverDir \o <<ReadyFile>> \notin DOMAIN files'
             /\ drv'.pc = "write"
        /\ (drv.attempt > 1 /\ drv'.pc = "poll" /\ drv.pc # "poll") => drv.pc = "write"]_vars
  /\ []((AllAnswersError /\ Len(drv.outcomes) = 3) =>
          /\ drv.pc = "exited" /\ drv.exitCode # 0
          /\ MarkerPath \notin DOMAIN files)

\* C18 witness: the driver has exited after three attempts that were all
\* answered with status=error
GaveUpAfterThreeErrors ==
  /\ drv.pc = "exited" /\ drv.exitCode = 1 /\ drv.attempt = 3
  /\ drv.outcomes = <<"error", "error", "error">>
  /\ MarkerPath \notin DOMAIN files

\* Instance n is reconciled along the steady path (not deleting, finalizer set)
Steady(n) == sci[n].exists /\ ~sci[n].deleting /\ sci[n].finalizer

\* C19 - When the Provider pod of an Instance has failed and is not Ready,
\* the Instance's status.phase eventually becomes Failed (unless the
\* Instance is deleted or the pod is replaced first).
ProviderFailureReported ==
  \A n \in Names :
    []((/\ Steady(n)
        /\ pods[providerPodName(n)].exists
        /\ pods[providerPodName(n)].role = "provider"
        /\ isPodFailed(pods[providerPodName(n)])) =>
         <>(\/ sci[n].phase = "Failed"
            \/ ~Steady(n)
            \/ ~isPodFailed(pods[providerPodName(n)])))

\* C20 - Recovery from Failed: an Instance in phase Failed whose Consumer
\* pod is Failed, whose Provider is Ready and whose spec.running is true
\* eventually reaches phase Running (unless it is stopped or deleted, or the
\* Provider stops being Ready, first).
FailedRecovers ==
  \A n \in Names :
    []((/\ Steady(n) /\ sci[n].running
        /\ sci[n].phase = "Failed"
        /\ sci[n].consumerPodName \in PodNames
        /\ isPodFailed(pods[sci[n].consumerPodName])
        /\ isPodReady(pods[providerPodName(n)])) =>
         <>(\/ sci[n].phase = "Running"
            \/ ~Steady(n) \/ ~sci[n].running
            \/ ~isPodReady(pods[providerPodName(n)])))

\* the Reconcile of Instance n gets as far as a pod Create that the API
\* server refuses
RefusedCreate(n) ==
  LET providerPod == pods[ReconcileProviderKey(n)]
      consumerPod == pods[ReconcileConsumerKey(n)]
  IN /\ Steady(n)
     /\ \/ ~providerPod.exists /\ "provider" \in rejects
        \/ /\ providerPod.exists /\ isPodReady(providerPod) /\ sci[n].running
           /\ ~consumerPod.exists /\ providerPod.nodeName # ""
           /\ "consumer" \in rejects

\* C21 - When the API server refuses the Create of the Provider or the
\* Consumer pod with a terminal error, the reconcile leaves the Instance in
\* phase Failed with the API's message in status.message, and it returns
\* neither a requeue nor an error (the creation is not retried).
RefusedCreateFails ==
  [][\A n \in Names :
       (RefusedCreate(n) /\ InstanceReconcile(n)) =>
          /\ sci'[n].phase = "Failed"
          /\ sci'[n].message = CreateRejectedMessage
          /\ result'[n].instance = NoRequeue]_vars

\* C22 - adjustPathsForHost is idempotent: applied to its own output it
\* returns that output unchanged.
AdjustIdempotent ==
  call.fn = "adjustPathsForHost" =>
    \A k \in 3..Len(call.outs) : call.outs[k] = call.outs[2]

\* path p lies in or under directory d
BeginsWith(p, d) == Len(p) >= Len(d) /\ SubSeq(p, 1, Len(d)) = d

\* the path the overlay must be given for layer p: under /host when p
\* begins with the containerd directory, p itself otherwise
HostLayer(p) == IF BeginsWith(p, ContainerdDir) THEN HostRootPath \o p ELSE p

\* C23 - adjustPathsForHost rewrites exactly the paths of lowerdir, upperdir
\* and workdir that begin with /var/lib/containerd, by prefixing /host; a
\* path that does not begin with it (even one that holds it further inside)
\* and everything else in the text are left unchanged.
AdjustRewritesPrefixed ==
  (call.fn = "adjustPathsForHost" /\ Len(call.outs) >= 2) =>
    call.outs[2] =
      FormatOptions([lowerdir |-> [k \in DOMAIN call.opts.lowerdir |->
                                     HostLayer(call.opts.lowerdir[k])],
                     upperdir |-> HostLayer(call.opts.upperdir),
                     workdir |-> HostLayer(call.opts.workdir)])

\* the processes of the table that are the rootfs container of pod uid
RootfsProcs(procs, uid) ==
  {pid \in DOMAIN procs :
     /\ Contains(procs[pid].cgroup, ReplaceAll(uid, <<"-">>, <<"_">>))
     /\ Contains(procs[pid].environ, <<RootfsMarkerEnv>>)}

\* C30 - findRootfsContainer returns a pid only if that process's cgroup
\* holds the pod uid (dashes as underscores) and its environment holds
\* ROOTFS_MARKER=true; it fails with 'rootfs container not found' when no
\* process matches; when several match it returns the numerically lowest pid.
FindsLowestRootfsPid ==
  (call.fn = "findRootfsContainer" /\ call.done) =>
    LET match == RootfsProcs(call.procs, call.podUID) IN
    IF match = {} THEN call.out = NotFound
    ELSE /\ call.out.err = ""
         /\ call.out.pid \in match
         /\ \A pid \in match : call.out.pid <= pid

\* how often capability c stands in the list add
CapCount(add, c) == Cardinality({k \in DOMAIN add : add[k] = c})

\* the securityContext rendered for the Consumer container is not
\* privileged and adds SYS_CHROOT once and no capability twice
ChrootOnlyOnce(ctx) ==
  /\ ctx.privileged \in {"unset", "false"}
  /\ CapCount(ctx.capabilities.add, "SYS_CHROOT") = 1
  /\ \A c \in Capabilities : CapCount(ctx.capabilities.add, c) <= 1

\* C24 - For every securityContext of the template, the rendered Consumer
\* container has privileged unset or false, capabilities.add holds
\* SYS_CHROOT exactly once and no entry twice, and capabilities.add does
\* not hold SYS_ADMIN.
ConsumerSecurityPosture ==
  (call.fn = "buildSecurityContext" /\ call.done) =>
    /\ ChrootOnlyOnce(call.out)
    /\ CapCount(call.out.capabilities.add, "SYS_ADMIN") = 0

\* C24 as amended - ... and capabilities.add holds SYS_ADMIN only when the
\* template's securityContext asks for it.
ConsumerSecurityPostureAsRequested ==
  (call.fn = "buildSecurityContext" /\ call.done) =>
    /\ ChrootOnlyOnce(call.out)
    /\ CapCount(call.out.capabilities.add, "SYS_ADMIN") > 0 =>
          /\ ~call.userCtx.nil
          /\ ~call.userCtx.capabilities.nil
          /\ CapCount(call.userCtx.capabilities.add, "SYS_ADMIN") > 0

\* C24 witness: the context was rendered for a privileged template that asks
\* for SYS_CHROOT itself and for another capability
PrivilegedChrootTemplateRendered ==
  /\ call.fn = "buildSecurityContext" /\ call.done
  /\ ~call.userCtx.nil
  /\ call.userCtx.privileged = "true"
  /\ call.userCtx.capabilities.add = <<"SYS_CHROOT", "NET_ADMIN">>
  /\ call.out.capabilities.add = <<"SYS_CHROOT", "NET_ADMIN">>

\* C25 - Whenever a Workload's status.phase is Stopped, its Instance and
\* its Provider pod exist, the Provider is running and no Consumer pod
\* exists; in particular a Workload created with spec.running=false gets an
\* Instance and a Provider pod.
StoppedKeepsProvider ==
  \A n \in Names :
    (sc[n].exists /\ sc[n].phase = "Stopped") =>
       /\ sci[n].exists
       /\ pods[providerPodName(n)].exists
       /\ pods[providerPodName(n)].phase = "Running"
       /\ ~pods[consumerPodName(n)].exists

\* the edges the phase of an Instance may take between healthy phases; a
\* new Instance, whose phase is still empty, counts as Pending
ListedEdges ==
  {<<"", "ProviderStarting">>, <<"Pending", "ProviderStarting">>,
   <<"ProviderStarting", "ProviderReady">>, <<"ProviderReady", "ConsumerStarting">>,
   <<"ConsumerStarting", "Running">>, <<"Running", "Stopping">>,
   <<"Stopping", "Stopped">>, <<"Stopped", "ConsumerStarting">>}

\* a pod that is, or that the controller takes for, the Consumer of n is Failed
ConsumerFailed(n) ==
  \E p \in {consumerPodName(n), ReconcileConsumerKey(n)} :
     pods[p].exists /\ isPodFailed(pods[p])

\* C26 - Every change of Instance.status.phase follows a listed edge:
\* Pending -> ProviderStarting -> ProviderReady -> ConsumerStarting ->
\* Running; Running -> Stopping -> Stopped when spec.running is false;
\* Stopped -> ConsumerStarting when it is true; any phase -> Failed when the
\* Consumer pod is Failed; Failed -> a non-failed phase when the pods are
\* healthy. A reconcile that finds the Consumer pod Failed leaves phase
\* Failed, whatever the phase and spec.running were.
PhaseFollowsEdges ==
  [][\A n \in Names :
       /\ (/\ sci[n].exists /\ sci'[n].exists /\ sci'[n].uid = sci[n].uid
           /\ sci'[n].phase # sci[n].phase) =>
             \/ /\ <<sci[n].phase, sci'[n].phase>> \in ListedEdges
                /\ sci[n].phase = "Running" => ~sci[n].running
                /\ sci[n].phase = "Stopped" => sci[n].running
             \/ sci'[n].phase = "Failed" /\ ConsumerFailed(n)
             \/ sci[n].phase = "Failed" /\ ~ConsumerFailed(n)
       /\ (Steady(n) /\ ConsumerFailed(n) /\ InstanceReconcile(n)) =>
             sci'[n].phase = "Failed"]_vars

\* phases after which a controller waits for a watch event
TerminalPhases == {"Running", "Stopped", "Failed"}

\* C27 - Requeue discipline: an Instance reconcile that ends by writing the
\* status requests a requeue after 2s when the phase written is
\* ProviderStarting, ProviderReady, ConsumerStarting or Stopping, and no
\* requeue when it is Running, Stopped or Failed; a Workload reconcile that
\* projects the Instance's status requeues after 2s exactly when the
\* projected phase is not Running, Stopped or Failed.
RequeueDiscipline ==
  [][\A n \in Names :
       /\ (Steady(n) /\ InstanceReconcile(n) /\ sci'[n] # sci[n]) =>
             result'[n].instance =
               IF sci'[n].phase \in TerminalPhases THEN NoRequeue ELSE RequeueAfter(2)
       /\ (/\ sc[n].exists /\ ~sc[n].deleting /\ sc[n].finalizer /\ sci[n].exists
           /\ WorkloadReconcile(n)) =>
             /\ result'[n].workload = RequeueAfter(2) <=> sc'[n].phase \notin TerminalPhases
             /\ result'[n].workload \in {RequeueAfter(2), NoRequeue}]_vars

\* C27 witness: the Instance reconcile wrote Stopped and asked for no
\* requeue, the Workload reconcile projected ProviderReady and asked for 2s
RequeueBothKinds ==
  \E n \in Names :
    /\ sci[n].exists /\ sci[n].phase = "Stopped" /\ result[n].instance = NoRequeue
    /\ sc[n].exists /\ sc[n].phase = "ProviderReady" /\ result[n].workload = RequeueAfter(2)

\* C28 - Finalizer handshake: the reconcile of a non-deleting Workload or
\* Instance that lacks the finalizer only adds the finalizer and requeues;
\* it creates no Instance and no pod and writes no status. A Provider pod
\* (role=provider, instance=<name>) comes into being only in a step that
\* starts with the Instance carrying the finalizer.
FinalizerHandshake ==
  [][\A n \in Names :
       /\ (sc[n].exists /\ ~sc[n].deleting /\ ~sc[n].finalizer /\ WorkloadReconcile(n)) =>
             /\ sc'[n] = [sc[n] EXCEPT !.finalizer = TRUE]
             /\ sci' = sci /\ pods' = pods
             /\ result'[n].workload = RequeueNow
       /\ (sci[n].exists /\ ~sci[n].deleting /\ ~sci[n].finalizer /\ InstanceReconcile(n)) =>
             /\ sci'[n] = [sci[n] EXCEPT !.finalizer = TRUE]
             /\ sc' = sc /\ pods' = pods
             /\ result'[n].instance = RequeueNow
       /\ \A p \in PodNames :
             (/\ ~pods[p].exists /\ pods'[p].exists
              /\ pods'[p].role = "provider" /\ pods'[p].instance = n) =>
                sci[n].exists /\ sci[n].finalizer]_vars

\* C28 witness: the Provider pod of an Instance exists, created after the
\* handshakes of the Workload and of the Instance
ProviderAfterHandshake ==
  \E n \in Names :
    /\ sc[n].exists /\ sc[n].finalizer
    /\ sci[n].exists /\ sci[n].finalizer
    /\ pods[providerPodName(n)].exists
    /\ pods[providerPodName(n)].role = "provider"
    /\ pods[providerPodName(n)].instance = n

\* C29 - Deletion order inside an Instance: a reconcile of a deleting
\* Instance issues the delete of the Provider pod only when no Consumer pod
\* of the Instance exists.
ProviderDeletedLast ==
  [][\A n \in Names :
       (/\ sci[n].exists /\ sci[n].deleting /\ InstanceReconcile(n)
        /\ pods[providerPodName(n)].exists
        /\ ~pods[providerPodName(n)].terminating
        /\ pods'[providerPodName(n)].terminating) =>
          ConsumerPods(n) = {}]_vars

\* the keys an overlay recipe needs
RequiredKeys == {"lowerdir=", "upperdir=", "workdir="}

\* the request in work directory w names the pod of a rootfs container on
\* the node
TargetFound(w) == host.container # "absent" /\ files[RequestOf(w)].podUID = DriverPodUID

\* the mounts of the target hold no line with first field overlay and
\* second field /, or the options of the first such line lack a required key
RecipeMissing ==
  LET lines == ContainerMounts(host.container)
      roots == {k \in DOMAIN lines :
                  lines[k].device = "overlay" /\ lines[k].mountpoint = "/"}
  IN \/ roots = {}
     \/ LET first == CHOOSE k \in roots : \A j \in roots : k <= j IN
        \E key \in RequiredKeys : ~Contains(lines[first].options, <<key>>)

\* C31 - Overlay recipe extraction fails the request whenever the target's
\* mounts hold no overlay line for / or its options lack lowerdir=,
\* upperdir= or workdir=: the step answers status=error and no mount is
\* attempted.
RecipeExtractionFails ==
  [][\A w \in ScanWorkDirs, mountOK \in BOOLEAN :
       (AgentProcess(w, mountOK) /\ TargetFound(w) /\ RecipeMissing) =>
          /\ ReadyOf(w) \in DOMAIN files'
          /\ files'[ReadyOf(w)].status = "error"
          /\ host'.mountCalls = host.mountCalls
          /\ mounts' = mounts]_vars

\* a step of mountProcDevSys failed under the rootfs of work directory w:
\* one of its mounts or the tmp directory is missing
SpecialFailed(w) ==
  LET rootfsDir == AgentHostPath(w \o <<"rootfs">>) IN
  \/ \E d \in SpecialMounts : rootfsDir \o d \notin mounts
  \/ rootfsDir \o <<"tmp">> \notin dirs

\* C32 - Failures while installing the pseudo-filesystems after a
\* successful overlay mount (the recipe is complete and the mount call is
\* let through) never turn the outcome into an error: the step that
\* mounts writes no answer, the agent's next step removes request.json and
\* the one after writes ready.json with status=ready.
SpecialFailuresIgnored ==
  [][/\ \A w \in ScanWorkDirs :
          (AgentProcess(w, TRUE) /\ TargetFound(w) /\ ~RecipeMissing
             /\ SpecialFailed(w)') =>
             /\ files' = files
             /\ agent'.pc = "mounted" /\ agent'.workDir = w
     /\ (agent.pc = "mounted" /\ SpecialFailed(agent.workDir) /\ agent' # agent) =>
          /\ agent'.pc = "removed" /\ agent'.workDir = agent.workDir
          /\ RequestOf(agent.workDir) \notin DOMAIN files'
     /\ (agent.pc = "removed" /\ SpecialFailed(agent.workDir) /\ agent' # agent) =>
          /\ agent'.pc = "idle"
          /\ ReadyOf(agent.workDir) \in DOMAIN files'
          /\ files'[ReadyOf(agent.workDir)].status = "ready"]_vars

\* C32 witness: the request was answered with status=ready and removed
\* although proc could not be mounted under the rootfs
ReadyDespiteSpecialFailure ==
  /\ agent.pc = "idle"
  /\ DriverDir \o <<RootfsDir>> \in mounts
  /\ DriverDir \o <<RootfsDir, "proc">> \notin mounts
  /\ DriverDir \o <<ReadyFile>> \in DOMAIN files
  /\ files[DriverDir \o <<ReadyFile>>].status = "ready"
  /\ DriverDir \o <<RequestFile>> \notin DOMAIN files

\* C33 - Crash recovery of the agent: when the agent died after the overlay
\* mount for the request in D and before removing request.json, the new
\* agent's processing of that request fails at the mount on the mounted
\* D/rootfs: it answers status=error, leaves request.json in place and
\* goes on without the removal and the ready answer.
CrashRecoveryAnswersError ==
  [][\A w \in ScanWorkDirs, mountOK \in BOOLEAN :
       (AgentProcess(w, mountOK) /\ agent.crashedOn = w
          /\ AgentHostPath(w \o <<"rootfs">>) \in mounts) =>
          /\ agent'.pc = "idle"
          /\ ReadyOf(w) \in DOMAIN files'
          /\ files'[ReadyOf(w)].status = "error"
          /\ RequestOf(w) \in DOMAIN files']_vars

\* the driver's poll loop takes the ready.json it reads as the answer: its
\* status is ready or error
DriverActsOnAnswer ==
  /\ drv.pc = "poll"
  /\ drv' # drv
  /\ DriverDir \o <<ReadyFile>> \in DOMAIN files
  /\ files[DriverDir \o <<ReadyFile>>].status \in {"ready", "error"}

\* C34 - Rendezvous ordering under interleaving: every ready.json the
\* driver acts on in an attempt was written by the agent as the result of
\* processing the request.json written in that same attempt of that run,
\* never one left from an earlier run or written from a request.json of an
\* earlier attempt.
AnswerBelongsToAttempt ==
  [][DriverActsOnAnswer =>
       agent.answered = [run |-> drv.run, attempt |-> drv.attempt]]_vars

\* the content of file p is written by the step: p is created or its
\* content changes
ContentWritten(p) == p \in DOMAIN files' /\ (p \notin DOMAIN files \/ files'[p] # files[p])

\* the name of the file with path p
BaseName(p) == p[Len(p)]

\* C35 - Single writer per file across all interleavings of agent and
\* driver: a step that writes the content of a ready.json is a step of the
\* agent and none of the driver, a step that writes the content of a
\* request.json or of a `ready` sentinel is a step of the driver and none
\* of the agent.
SingleWriter ==
  [][\A p \in DOMAIN files' :
       ContentWritten(p) =>
         /\ BaseName(p) = ReadyFileName => agent' # agent /\ drv' = drv
         /\ BaseName(p) \in {RequestFileName, ReadyMarker} =>
              drv' # drv /\ agent' = agent]_vars

\* C35 witness: request.json and the sentinel written by the driver lie
\* beside a ready.json written by the agent
AllThreeFilesWritten ==
  /\ DriverDir \o <<RequestFile>> \in DOMAIN files
  /\ DriverDir \o <<ReadyFile>> \in DOMAIN files
  /\ MarkerPath \in DOMAIN files
  /\ agent.answered # NoStamp
  /\ drv.written # NoStamp

\* the status fields of an Instance
InstanceStatus(i) ==
  <<i.phase, i.message, i.nodeName, i.providerPodName, i.providerPodUID,
    i.consumerPodName, i.consumerPodUID>>

\* C36 - The Workload controller's only mutation of an existing Instance is
\* setting spec.running to the Workload's spec.running: a reconcile of a
\* Workload that is not being deleted leaves an existing Instance as it
\* was but for spec.running (its status included); an Instance it creates
\* carries the Workload's template, provider and hostPathPrefix, and these
\* never change while the Instance lives, whatever is edited in the
\* Workload; and no reconcile of the Instance controller changes the
\* Workload.
WorkloadOnlySetsRunning ==
  [][\A n \in Names :
       /\ (WorkloadReconcile(n) /\ ~sc[n].deleting /\ sci[n].exists) =>
            /\ sci'[n] = [sci[n] EXCEPT !.running = sc[n].running]
            /\ InstanceStatus(sci'[n]) = InstanceStatus(sci[n])
       /\ (WorkloadReconcile(n) /\ ~sci[n].exists /\ sci'[n].exists) =>
            \A f \in CopiedFields : sci'[n][f] = sc[n][f]
       /\ (sci[n].exists /\ sci'[n].exists /\ sci'[n].uid = sci[n].uid) =>
            \A f \in CopiedFields : sci'[n][f] = sci[n][f]
       /\ InstanceReconcile(n) => sc' = sc]_vars

\* C36 witness: the Workload's template was edited and the controller has
\* stopped the Instance, which still carries the template copied at creation
TemplateKeptAcrossStop ==
  \E n \in Names :
    /\ sc[n].exists /\ sci[n].exists /\ sci[n].owner = sc[n].uid
    /\ sc[n].template = EditedSpec.template
    /\ sci[n].template = OriginalSpec.template
    /\ ~sc[n].running /\ ~sci[n].running
    /\ sc[n].phase = "Stopped"

\* the names a Consumer pod of Instance n goes by: the one the builder
\* gives it and the one the controller looks up
ConsumerNames(n) == {consumerPodName(n), ReconcileConsumerKey(n)}

\* the reconcile of Instance n finds its Provider pod absent or not Ready
ProviderNotReady(n) ==
  \/ ~pods[ReconcileProviderKey(n)].exists
  \/ ~(pods[ReconcileProviderKey(n)].phase = "Running" /\ pods[ReconcileProviderKey(n)].ready)

PodCreated(p) == pods'[p].exists /\ (~pods[p].exists \/ pods'[p].uid # pods[p].uid)

\* C38 - No reconcile that reads Instance.spec.running=false creates a
\* Consumer pod, and no reconcile of a non-deleting Instance that reads
\* spec.running=true deletes or changes one; under any interleaving of
\* Workload flips and Instance reconciles every step that creates a pod
\* in the consumer role is a reconcile of an Instance with
\* spec.running=true.
ConsumerFollowsRunningRead ==
  [][/\ \A n \in Names :
          InstanceReconcile(n) =>
            /\ ~sci[n].running => \A c \in ConsumerNames(n) : ~PodCreated(c)
            /\ (~sci[n].deleting /\ sci[n].running) =>
                 \A c \in ConsumerNames(n) : pods[c].exists => pods'[c] = pods[c]
     /\ \A p \in PodNames :
          (PodCreated(p) /\ pods'[p].role = "consumer") =>
             \E n \in Names : InstanceReconcile(n) /\ sci[n].running /\ pods'[p].instance = n
    ]_vars

\* C38 witness: the Instance is asked to run, its Consumer pod exists and
\* is not being deleted, and the last reconcile found the pod in place
ConsumerKeptWhileRunning ==
  \E n \in Names :
    /\ Steady(n) /\ sci[n].running
    /\ pods[consumerPodName(n)].exists
    /\ pods[consumerPodName(n)].role = "consumer"
    /\ ~pods[consumerPodName(n)].terminating
    /\ sci[n].phase = "ConsumerStarting"
    /\ result[n].instance = RequeueNow

\* the reconcile of Instance n goes to create the Consumer pod although a
\* pod of the name the builder gives it exists
ConsumerCreateHitsExisting(n) ==
  /\ Steady(n) /\ sci[n].running
  /\ pods[ReconcileProviderKey(n)].exists
  /\ pods[ReconcileProviderKey(n)].phase = "Running" /\ pods[ReconcileProviderKey(n)].ready
  /\ pods[ReconcileProviderKey(n)].nodeName # ""
  /\ ~pods[ReconcileConsumerKey(n)].exists
  /\ pods[consumerPodName(n)].exists

\* C39 - AlreadyExists is benign: a reconcile whose Create of the Instance,
\* of the Provider pod or of the Consumer pod meets an object of that name
\* returns no error, asks for an immediate requeue and writes nothing: the
\* Workload, the Instance (phase, message and the rest of the status) and
\* the pods are as before.
AlreadyExistsBenign ==
  [][\A n \in Names :
       /\ WorkloadStaleCreate(n) =>
            /\ result'[n].workload = RequeueNow
            /\ sc' = sc /\ sci' = sci /\ pods' = pods
       /\ (InstanceStaleCreate(n) \/ (InstanceReconcile(n) /\ ConsumerCreateHitsExisting(n))) =>
            /\ result'[n].instance = RequeueNow
            /\ sc' = sc /\ sci' = sci /\ pods' = pods]_vars

\* C39 witness: with the Instance, its Provider pod and its Consumer pod in
\* place, the last reconcile of each controller asked for an immediate
\* requeue
BothRequeuedOnExisting ==
  \E n \in Names :
    /\ sc[n].exists /\ sci[n].exists /\ sci[n].owner = sc[n].uid /\ Steady(n)
    /\ pods[ReconcileProviderKey(n)].exists
    /\ ConsumerCreateHitsExisting(n)
    /\ result[n].workload = RequeueNow
    /\ result[n].instance = RequeueNow

\* the entries in sequence q
Entries(q) == {q[k] : k \in DOMAIN q}

\* the files and directories under work directory w (as a host path)
Under(w, p) == Len(p) > Len(w) /\ SubSeq(p, 1, Len(w)) = w

\* C40 - Per-request isolation in one agent pass: the pass examines the
\* entries it listed one after the other; an entry that holds a
\* request.json when it is examined is processed, and no entry is
\* processed twice in a pass; while a request is being processed the pass
\* does not move on; and a processRequest that fails writes ready.json
\* with status=error into that directory, changes no other file, makes
\* directories only under it, and leaves the rest of the pass to be
\* examined as listed.
PassIsolation ==
  /\ [](/\ \A j, k \in DOMAIN agent.done : j # k => agent.done[j] # agent.done[k]
        /\ Entries(agent.done) \cup Entries(agent.queue) \subseteq Entries(agent.pass)
        /\ Entries(agent.done) \cap Entries(agent.queue) = {})
  /\ [][/\ (agent.queue # <<>> /\ agent'.queue # agent.queue /\ agent'.pass = agent.pass) =>
             /\ agent.pc = "idle"
             /\ agent'.queue = Tail(agent.queue)
             /\ HasRequest(WorkDirOf(Head(agent.queue))) =>
                  agent'.done = Append(agent.done, Head(agent.queue))
             /\ ~HasRequest(WorkDirOf(Head(agent.queue))) =>
                  agent'.done = agent.done /\ files' = files
        /\ agent.pc # "idle" =>
             agent'.queue = agent.queue /\ agent'.done = agent.done
        /\ \A w \in ScanWorkDirs, mountOK \in BOOLEAN :
             (AgentProcess(w, mountOK) /\ agent'.pc = "idle") =>
                /\ ReadyOf(w) \in DOMAIN files'
                /\ files'[ReadyOf(w)].status = "error"
                /\ \A q \in (DOMAIN files \cup DOMAIN files') \ {ReadyOf(w)} :
                      q \in DOMAIN files /\ q \in DOMAIN files' /\ files'[q] = files[q]
                /\ \A x \in dirs' \ dirs : Under(AgentHostPath(w), x)
                /\ mounts' = mounts
                /\ agent'.queue = Tail(agent.queue)]_vars

\* C40 witness: a pass is over in which the request in demo was answered
\* with status=error and the one in web, examined after it, with
\* status=ready
ErrorThenReadyInOnePass ==
  /\ agent.pc = "idle" /\ agent.queue = <<>>
  /\ agent.done = <<"demo", "web">>
  /\ ReadyOf(WorkDirOf("demo")) \in DOMAIN files
  /\ ReadyOf(WorkDirOf("web")) \in DOMAIN files
  /\ files[ReadyOf(WorkDirOf("demo"))].status = "error"
  /\ files[ReadyOf(WorkDirOf("web"))].status = "ready"
  /\ RequestOf(WorkDirOf("demo")) \in DOMAIN files
  /\ RequestOf(WorkDirOf("web")) \notin DOMAIN files

====
